---------------------------- MODULE Spec2Model ----------------------------
(***************************************************************************)
(* A model of the cloning playback controller of Jump Cutter               *)
(* (ElementPlaybackControllerCloning.ts): the seek-duration estimator      *)
(* (SeekDurationProphet), the skip scheduler                               *)
(* (maybeScheduleMaybeSeekOrSpeedup), the skip decision engine             *)
(* (maybeSeekOrSpeedup) and the controller's life cycle.                   *)
(*                                                                         *)
(* Media times, real-time delays and speeds are JavaScript numbers in the  *)
(* source.  Here they are exact rationals [n |-> numerator, d |->          *)
(* denominator], kept in lowest terms with d > 0, so that every comparison *)
(* of the source (>, <=, >=) is decided exactly.  Event time stamps are    *)
(* whole clock units (milliseconds).                                       *)
(***************************************************************************)
EXTENDS Integers, Sequences, FiniteSets, TLC

VARIABLES
  now,            \* the real-time clock, ms (performance.now(), Event.timeStamp)
  eventLog,       \* history variable: the 'seeking'/'seeked' events dispatched so far
  element,        \* the HTMLMediaElement: currentTime, paused, playbackRate, defaultPlaybackRate
  settings,       \* Controller.settings
  browserHasAudioDesyncBug,   \* the imported build/environment flag
  initPhase,      \* how far init() has got
  initialized,    \* Controller.initialized
  pendingSettingsUpdates,     \* Controller._pendingSettingsUpdates
  destroyPhase,   \* how far destroy() has got
  destruction,    \* the calls of destroy() and what they have run
  lookahead,      \* Controller.lookahead: present or undefined
  clonePlaybackError,         \* Controller.clonePlaybackError
  seekDurationProphet,        \* Controller.seekDurationProphet
  didNotDoDesyncCorrectionForNSpeedSwitches,  \* the desync budget
  lastSilenceSkippingSeek,    \* Controller._lastSilenceSkippingSeek
  maybeSeekOrSpeedupTimeoutId,
  timers,         \* the armed setTimeout timers
  rateBeforeInit, \* the element's rates captured by init()
  lastActualPlaybackRateChange,   \* Controller._lastActualPlaybackRateChange
  throttledInitLookahead,         \* the state of Controller._throttledInitLookahead
  trace           \* history variable: what the last step did

vars == <<now, eventLog, element, settings, browserHasAudioDesyncBug, initPhase,
          initialized, pendingSettingsUpdates, destroyPhase, destruction, lookahead,
          clonePlaybackError,
          seekDurationProphet, didNotDoDesyncCorrectionForNSpeedSwitches,
          lastSilenceSkippingSeek, maybeSeekOrSpeedupTimeoutId, timers,
          rateBeforeInit, lastActualPlaybackRateChange, throttledInitLookahead,
          trace>>

\* Everything but the clock, the event log and the estimator.
controllerVars == <<element, settings, browserHasAudioDesyncBug, initPhase,
          initialized, pendingSettingsUpdates, destroyPhase, destruction, lookahead,
          clonePlaybackError, didNotDoDesyncCorrectionForNSpeedSwitches,
          lastSilenceSkippingSeek, maybeSeekOrSpeedupTimeoutId, timers,
          rateBeforeInit, lastActualPlaybackRateChange, throttledInitLookahead>>

---------------------------------------------------------------------------
(* Exact rational arithmetic.                                              *)

Abs(x) == IF x < 0 THEN -x ELSE x

RECURSIVE GCD(_, _)
GCD(a, b) == IF b = 0 THEN a ELSE GCD(b, a % b)

Rat(n, d) ==
  LET s == IF d < 0 THEN -1 ELSE 1
      g == GCD(Abs(n), Abs(d))
  IN  [n |-> (s * n) \div g, d |-> (s * d) \div g]

RInt(i) == [n |-> i, d |-> 1]
RAdd(a, b) == Rat(a.n * b.d + b.n * a.d, a.d * b.d)
RSub(a, b) == Rat(a.n * b.d - b.n * a.d, a.d * b.d)
RMul(a, b) == Rat(a.n * b.n, a.d * b.d)
RDiv(a, b) == Rat(a.n * b.d, a.d * b.n)
RLt(a, b) == a.n * b.d < b.n * a.d
RLe(a, b) == a.n * b.d <= b.n * a.d
RGt(a, b) == RLt(b, a)
RGe(a, b) == RLe(b, a)
RMax(a, b) == IF RLt(a, b) THEN b ELSE a
RAbs(a) == [n |-> Abs(a.n), d |-> a.d]
RZero == RInt(0)
ROne == RInt(1)

RECURSIVE SeqSum(_)
SeqSum(s) == IF s = <<>> THEN 0 ELSE Head(s) + SeqSum(Tail(s))

Last(s) == s[Len(s)]
LastN(s, k) == IF Len(s) <= k THEN s ELSE SubSeq(s, Len(s) - k + 1, Len(s))

---------------------------------------------------------------------------
(* SeekDurationProphet.                                                    *)

seekDurationProphetHistoryLength == 5
seekDurationProphetNoDataInitialAssumedDuration == 150

\* The estimator as constructed at clock value t, its listeners attached.
NewSeekDurationProphet(t) ==
  [history |-> <<>>,
   historyAverage |-> RInt(seekDurationProphetNoDataInitialAssumedDuration),
   lastSeekStartTime |-> t,
   listening |-> TRUE,
   destroyCalls |-> 0,
   teardowns |-> 0]

\* A mutant: destroy() leaves the listeners attached.
destroyKeepingListeners(p) == [p EXCEPT !.destroyCalls = @ + 1]

\* SeekDurationProphet.destroy (lines 102-118): it resolves _destroyedPromise,
\* whose callback removes the two listeners; resolving a resolved promise does
\* nothing.  p.listening says that the promise is not resolved yet.
destroy(p) ==
  [p EXCEPT !.destroyCalls = @ + 1,
            !.listening = FALSE,
            !.teardowns = IF p.listening THEN @ + 1 ELSE @]

\* A mutant: of two seek starts the earlier one is kept.
onSeekingKeepsEarlier(p, timeStamp) ==
  [p EXCEPT !.lastSeekStartTime = IF @ < timeStamp THEN @ ELSE timeStamp]

onSeeking(p, timeStamp) == [p EXCEPT !.lastSeekStartTime = timeStamp]

\* A mutant: the history is never shifted.
onSeekedNoEviction(p, timeStamp) ==
  LET seekDuration == timeStamp - p.lastSeekStartTime
      pushed == Append(p.history, seekDuration)
  IN  [p EXCEPT !.history = pushed,
                !.historyAverage = Rat(SeqSum(pushed), Len(pushed))]

onSeeked(p, timeStamp) ==
  LET seekDuration == timeStamp - p.lastSeekStartTime
      pushed == Append(p.history, seekDuration)
      history == IF Len(pushed) > seekDurationProphetHistoryLength
                 THEN Tail(pushed) ELSE pushed
  IN  [p EXCEPT !.history = history,
                !.historyAverage = Rat(SeqSum(history), Len(history))]

nextSeekDurationMs(p) == p.historyAverage

---------------------------------------------------------------------------
(* Timers (window.setTimeout / clearTimeout).                              *)
(* A timer is [id, kind, seekTo, seekScheduledTo, delay]: kind             *)
(* "maybeSeekOrSpeedup" is the scheduler's timer (line 547) with the two   *)
(* arguments it passes on; kind "setSpeedSounded" is the rate-restoration  *)
(* timer (line 741).  delay is in milliseconds.  setTimeout never returns  *)
(* an id that is in use or that the controller still holds.                *)

NoArg == [n |-> 0, d |-> 0]

TimerIds(ts) == {t.id : t \in ts}

NewTimerId(ts, held) ==
  LET free == {i \in 1..(Cardinality(ts) + 2) : i \notin TimerIds(ts) /\ i # held}
  IN  CHOOSE i \in free : \A j \in free : i <= j

clearTimeout(ts, id) == {t \in ts : t.id # id}

SeekTimers(ts) == {t \in ts : t.kind = "maybeSeekOrSpeedup"}
RestoreTimers(ts) == {t \in ts : t.kind = "setSpeedSounded"}

---------------------------------------------------------------------------
(* Helpers imported from outside the file.                                 *)

\* maybeClosestNonNormalSpeed (imported at line 26, used at line 151): the
\* rate the element is given for a speed; its code is not in this file, and
\* it is taken to return the speed itself.
getActualPlaybackRateForSpeed(speed, volumeThreshold) == speed

\* setPlaybackRateAndRememberIt / setDefaultPlaybackRateAndRememberIt
\* (imported at lines 39-42): they set the element's property.
setPlaybackRateAndRememberIt(el, v) == [el EXCEPT !.playbackRate = v]
setDefaultPlaybackRateAndRememberIt(el, v) == [el EXCEPT !.defaultPlaybackRate = v]

---------------------------------------------------------------------------
(* The controller's mutable state as one record, so that the methods can   *)
(* be composed the way the source calls them.                              *)

Ctl ==
  [element |-> element,
   settings |-> settings,
   browserHasAudioDesyncBug |-> browserHasAudioDesyncBug,
   lookahead |-> lookahead,
   clonePlaybackError |-> clonePlaybackError,
   seekDurationProphet |-> seekDurationProphet,
   didNotDoDesyncCorrectionForNSpeedSwitches |-> didNotDoDesyncCorrectionForNSpeedSwitches,
   lastSilenceSkippingSeek |-> lastSilenceSkippingSeek,
   maybeSeekOrSpeedupTimeoutId |-> maybeSeekOrSpeedupTimeoutId,
   timers |-> timers,
   lastActualPlaybackRateChange |-> lastActualPlaybackRateChange,
   throttledInitLookahead |-> throttledInitLookahead,
   trace |-> trace]

SetCtl(c) ==
  /\ element' = c.element
  /\ settings' = c.settings
  /\ lookahead' = c.lookahead
  /\ clonePlaybackError' = c.clonePlaybackError
  /\ didNotDoDesyncCorrectionForNSpeedSwitches' = c.didNotDoDesyncCorrectionForNSpeedSwitches
  /\ lastSilenceSkippingSeek' = c.lastSilenceSkippingSeek
  /\ maybeSeekOrSpeedupTimeoutId' = c.maybeSeekOrSpeedupTimeoutId
  /\ timers' = c.timers
  /\ lastActualPlaybackRateChange' = c.lastActualPlaybackRateChange
  /\ throttledInitLookahead' = c.throttledInitLookahead
  /\ trace' = c.trace

\* The part of the state an evaluation of the engine can read or write.
Snapshot(c) ==
  [element |-> c.element,
   settings |-> c.settings,
   browserHasAudioDesyncBug |-> c.browserHasAudioDesyncBug,
   historyAverage |-> c.seekDurationProphet.historyAverage,
   didNotDoDesyncCorrectionForNSpeedSwitches |-> c.didNotDoDesyncCorrectionForNSpeedSwitches,
   lastSilenceSkippingSeek |-> c.lastSilenceSkippingSeek,
   maybeSeekOrSpeedupTimeoutId |-> c.maybeSeekOrSpeedupTimeoutId,
   timers |-> c.timers]

NoSnapshot ==
  [element |-> [currentTime |-> NoArg, paused |-> TRUE, playbackRate |-> NoArg,
                defaultPlaybackRate |-> NoArg],
   settings |-> [soundedSpeed |-> NoArg, silenceSpeed |-> NoArg,
                 volumeThreshold |-> 0, marginBefore |-> 0, marginAfter |-> 0,
                 enableDesyncCorrection |-> FALSE, isOppositeDay |-> FALSE],
   browserHasAudioDesyncBug |-> FALSE,
   historyAverage |-> NoArg,
   didNotDoDesyncCorrectionForNSpeedSwitches |-> 0,
   lastSilenceSkippingSeek |-> <<>>,
   maybeSeekOrSpeedupTimeoutId |-> -1,
   timers |-> {}]

\* What Lookahead.getNextSilenceRange returns: a range [start, end] with its
\* "still pending" flag, or nothing.
NoRange == [some |-> FALSE, start |-> NoArg, end |-> NoArg, pending |-> FALSE]
Range(start, end, pending) == [some |-> TRUE, start |-> start, end |-> end, pending |-> pending]

\* trace: op is the operation of the last step; scheduled says what the
\* scheduler did in it and cancelled whether its clearTimeout (line 541) found
\* its timer armed; evaluated says whether the engine ran in it, and then
\* pre is the state the engine found, seekTo/seekScheduledTo its arguments
\* and verdict what it decided ("stale" when it returned at line 575).
\* submitted is the argument of updateSettingsAndMaybeCreateNewInstance,
\* queued the _pendingSettingsUpdates that init() found, and recomputed the
\* number of calls of _setStateAccordingToNewSettings in the step; requested
\* says whether destroyAndThrottledInitLookahead was called in it and created
\* whether _initLookahead ran in it; cleared says whether the clearTimeout of
\* _setStateAccordingToNewSettings (line 835) found the scheduler's timer armed.
NoTrace(op) ==
  [op |-> op, scheduled |-> "no", cancelled |-> FALSE, cleared |-> FALSE,
   timeAtScheduling |-> NoArg, range |-> NoRange,
   evaluated |-> FALSE, seekTo |-> NoArg, seekScheduledTo |-> NoArg,
   verdict |-> "none", pre |-> NoSnapshot,
   submitted |-> <<>>, queued |-> <<>>, recomputed |-> 0,
   requested |-> FALSE, created |-> FALSE]

---------------------------------------------------------------------------
(* Controller.maybeSeekOrSpeedup: the skip decision engine.  Its           *)
(* intermediate values are operators of s, the state it finds (a           *)
(* Snapshot), and of its arguments.                                        *)

DO_DESYNC_CORRECTION_EVERY_N_SPEED_SWITCHES == 20

\* A mutant: the element being paused does not cancel the evaluation.
mustCancelSeekIgnoringPaused(s, seekScheduledTo) ==
  RGt(RAbs(RSub(s.element.currentTime, seekScheduledTo)), Rat(1, 2))

mustCancelSeek(s, seekScheduledTo) ==
  \/ RGt(RAbs(RSub(s.element.currentTime, seekScheduledTo)), Rat(1, 2))
  \/ s.element.paused

seekAmount(s, seekTo) == RSub(seekTo, s.element.currentTime)

expectedSeekDuration(s) == RDiv(s.historyAverage, RInt(1000))

realTimeLeftUntilDestinationAtNormalSpeed(s, seekTo) ==
  RDiv(seekAmount(s, seekTo), s.settings.soundedSpeed)

canSaveTimeBySeeking(s, seekTo) ==
  RSub(realTimeLeftUntilDestinationAtNormalSpeed(s, seekTo), expectedSeekDuration(s))

realTimeLeftUntilDestinationAtSilenceSpeed(s, seekTo) ==
  RDiv(seekAmount(s, seekTo), s.settings.silenceSpeed)

desyncCorrectionOn(s) ==
  s.browserHasAudioDesyncBug /\ s.settings.enableDesyncCorrection

canSaveTimeBySpeedingUp(s, seekTo) ==
  LET raw == RSub(realTimeLeftUntilDestinationAtNormalSpeed(s, seekTo),
                  realTimeLeftUntilDestinationAtSilenceSpeed(s, seekTo))
      oneSpeedupDesyncCorrectionTimeCost ==
        RDiv(expectedSeekDuration(s), RInt(DO_DESYNC_CORRECTION_EVERY_N_SPEED_SWITCHES))
  IN  IF desyncCorrectionOn(s)
      THEN RSub(raw, oneSpeedupDesyncCorrectionTimeCost)
      ELSE raw

\* A mutant: the count of speed switches is taken modulo its period.
howMuchWeWantDesyncCorrectionWrapping(s) ==
  Rat(s.didNotDoDesyncCorrectionForNSpeedSwitches
        % DO_DESYNC_CORRECTION_EVERY_N_SPEED_SWITCHES,
      DO_DESYNC_CORRECTION_EVERY_N_SPEED_SWITCHES)

howMuchWeWantDesyncCorrection(s) ==
  Rat(s.didNotDoDesyncCorrectionForNSpeedSwitches,
      DO_DESYNC_CORRECTION_EVERY_N_SPEED_SWITCHES)

\* howMuchWeWantDesyncCorrection >= 1 - howMuchWeWantToSeek (line 647).  When
\* expectedSeekDuration is 0 the source divides by Number.MIN_VALUE instead:
\* the quotient is then +Infinity (or above any budget) for a positive
\* dividend, 0 for 0, and below any negated budget for a negative one.
wantsDesyncCorrectionEnough(s, seekTo) ==
  LET left == realTimeLeftUntilDestinationAtNormalSpeed(s, seekTo)
      esd == expectedSeekDuration(s)
  IN  IF esd.n # 0
      THEN LET howMuchWeWantToSeek == RDiv(left, esd)
               howMuchWeDontWantToSeek == RSub(ROne, howMuchWeWantToSeek)
           IN  RGe(howMuchWeWantDesyncCorrection(s), howMuchWeDontWantToSeek)
      ELSE IF left.n > 0 THEN TRUE
      ELSE IF left.n = 0 THEN RGe(howMuchWeWantDesyncCorrection(s), ROne)
      ELSE FALSE

\* A mutant: the forced-seek test is made whether or not the workaround is on.
needForceSeekWhateverTheSettings(s, seekTo) == wantsDesyncCorrectionEnough(s, seekTo)

needForceSeekForDesyncCorrection(s, seekTo) ==
  IF desyncCorrectionOn(s) THEN wantsDesyncCorrectionEnough(s, seekTo) ELSE FALSE

ifNeedForceSeekThenSeekElse(s, seekTo, else_) ==
  IF needForceSeekForDesyncCorrection(s, seekTo) THEN "SEEK" ELSE else_

expectedMinimumSetTimeoutDelay == Rat(1, 240)

speedupCanOvershoot(s, seekTo) ==
  RLe(realTimeLeftUntilDestinationAtSilenceSpeed(s, seekTo), expectedMinimumSetTimeoutDelay)

\* A mutant: a forced seek does not override a SPEEDUP (only a NOTHING).
whatToDoForceOnlyOverNothing(s, seekTo) ==
  IF RGt(canSaveTimeBySeeking(s, seekTo), canSaveTimeBySpeedingUp(s, seekTo))
  THEN IF RLe(canSaveTimeBySeeking(s, seekTo), RZero)
       THEN ifNeedForceSeekThenSeekElse(s, seekTo, "NOTHING")
       ELSE "SEEK"
  ELSE IF RLe(canSaveTimeBySpeedingUp(s, seekTo), RZero)
  THEN ifNeedForceSeekThenSeekElse(s, seekTo, "NOTHING")
  ELSE IF speedupCanOvershoot(s, seekTo)
  THEN IF RGt(canSaveTimeBySeeking(s, seekTo), RZero)
       THEN "SEEK"
       ELSE ifNeedForceSeekThenSeekElse(s, seekTo, "NOTHING")
  ELSE "SPEEDUP"

\* A mutant: a speedup that saves exactly nothing is still taken.
whatToDoStrictComparison(s, seekTo) ==
  IF RGt(canSaveTimeBySeeking(s, seekTo), canSaveTimeBySpeedingUp(s, seekTo))
  THEN IF RLe(canSaveTimeBySeeking(s, seekTo), RZero)
       THEN ifNeedForceSeekThenSeekElse(s, seekTo, "NOTHING")
       ELSE "SEEK"
  ELSE IF RLt(canSaveTimeBySpeedingUp(s, seekTo), RZero)
  THEN ifNeedForceSeekThenSeekElse(s, seekTo, "NOTHING")
  ELSE IF speedupCanOvershoot(s, seekTo)
  THEN IF RGt(canSaveTimeBySeeking(s, seekTo), RZero)
       THEN "SEEK"
       ELSE ifNeedForceSeekThenSeekElse(s, seekTo, "NOTHING")
  ELSE ifNeedForceSeekThenSeekElse(s, seekTo, "SPEEDUP")

\* A mutant: a seek that saves more than a speedup is made even if it saves nothing.
whatToDoSeekWheneverBetter(s, seekTo) ==
  IF RGt(canSaveTimeBySeeking(s, seekTo), canSaveTimeBySpeedingUp(s, seekTo))
  THEN "SEEK"
  ELSE IF RLe(canSaveTimeBySpeedingUp(s, seekTo), RZero)
  THEN ifNeedForceSeekThenSeekElse(s, seekTo, "NOTHING")
  ELSE IF speedupCanOvershoot(s, seekTo)
  THEN IF RGt(canSaveTimeBySeeking(s, seekTo), RZero)
       THEN "SEEK"
       ELSE ifNeedForceSeekThenSeekElse(s, seekTo, "NOTHING")
  ELSE ifNeedForceSeekThenSeekElse(s, seekTo, "SPEEDUP")

\* A mutant: a speedup is taken however short it would be.
whatToDoIgnoringOvershoot(s, seekTo) ==
  IF RGt(canSaveTimeBySeeking(s, seekTo), canSaveTimeBySpeedingUp(s, seekTo))
  THEN IF RLe(canSaveTimeBySeeking(s, seekTo), RZero)
       THEN ifNeedForceSeekThenSeekElse(s, seekTo, "NOTHING")
       ELSE "SEEK"
  ELSE IF RLe(canSaveTimeBySpeedingUp(s, seekTo), RZero)
  THEN ifNeedForceSeekThenSeekElse(s, seekTo, "NOTHING")
  ELSE ifNeedForceSeekThenSeekElse(s, seekTo, "SPEEDUP")

whatToDo(s, seekTo) ==
  IF RGt(canSaveTimeBySeeking(s, seekTo), canSaveTimeBySpeedingUp(s, seekTo))
  THEN IF RLe(canSaveTimeBySeeking(s, seekTo), RZero)
       THEN ifNeedForceSeekThenSeekElse(s, seekTo, "NOTHING")
       ELSE "SEEK"
  ELSE IF RLe(canSaveTimeBySpeedingUp(s, seekTo), RZero)
  THEN ifNeedForceSeekThenSeekElse(s, seekTo, "NOTHING")
  ELSE IF speedupCanOvershoot(s, seekTo)
  THEN IF RGt(canSaveTimeBySeeking(s, seekTo), RZero)
       THEN "SEEK"
       ELSE ifNeedForceSeekThenSeekElse(s, seekTo, "NOTHING")
  ELSE ifNeedForceSeekThenSeekElse(s, seekTo, "SPEEDUP")

\* A mutant: every switch of the speed starts the count of switches anew.
setSpeedAndLogResettingCounter(c, speedName) ==
  LET speedVal == getActualPlaybackRateForSpeed(
                    IF speedName = "SOUNDED" THEN c.settings.soundedSpeed
                                             ELSE c.settings.silenceSpeed,
                    c.settings.volumeThreshold)
  IN  [c EXCEPT !.element = setPlaybackRateAndRememberIt(c.element, speedVal),
                !.lastActualPlaybackRateChange = [name |-> speedName, value |-> speedVal],
                !.didNotDoDesyncCorrectionForNSpeedSwitches = 0]

\* Controller._setSpeedAndLog.
setSpeedAndLog(c, speedName) ==
  LET speedVal == getActualPlaybackRateForSpeed(
                    IF speedName = "SOUNDED" THEN c.settings.soundedSpeed
                                             ELSE c.settings.silenceSpeed,
                    c.settings.volumeThreshold)
  IN  [c EXCEPT !.element = setPlaybackRateAndRememberIt(c.element, speedVal),
                !.lastActualPlaybackRateChange = [name |-> speedName, value |-> speedVal]]

\* A mutant: a SEEK leaves the counter of speed switches as it was.
executeSeekKeepingCounter(c, seekTo, seekScheduledTo) ==
  [c EXCEPT !.element.currentTime = seekTo,
            !.lastSilenceSkippingSeek = <<seekScheduledTo, seekTo>>]

\* A mutant: a SEEK is recorded with its destination in place of its start.
executeSeekRecordingDestination(c, seekTo, seekScheduledTo) ==
  [c EXCEPT !.element.currentTime = seekTo,
            !.didNotDoDesyncCorrectionForNSpeedSwitches = 0,
            !.lastSilenceSkippingSeek = <<seekTo, seekTo>>]

\* The SEEK branch (lines 722-734).
executeSeek(c, seekTo, seekScheduledTo) ==
  [c EXCEPT !.element.currentTime = seekTo,
            !.didNotDoDesyncCorrectionForNSpeedSwitches = 0,
            !.lastSilenceSkippingSeek = <<seekScheduledTo, seekTo>>]

\* A mutant: the rate is restored after the time the range takes at the sounded speed.
executeSpeedupRestoringLate(c, seekTo) ==
  LET sped == setSpeedAndLog(c, "SILENCE")
      timer == [id |-> NewTimerId(c.timers, c.maybeSeekOrSpeedupTimeoutId),
                kind |-> "setSpeedSounded",
                seekTo |-> NoArg, seekScheduledTo |-> NoArg,
                delay |-> RMul(realTimeLeftUntilDestinationAtNormalSpeed(Snapshot(c), seekTo),
                               RInt(1000))]
  IN  [sped EXCEPT !.timers = c.timers \cup {timer},
                   !.didNotDoDesyncCorrectionForNSpeedSwitches = @ + 1]

\* A mutant: the speed is switched and no timer is armed to switch it back.
executeSpeedupWithoutTimer(c, seekTo) ==
  [setSpeedAndLog(c, "SILENCE") EXCEPT !.didNotDoDesyncCorrectionForNSpeedSwitches = @ + 1]

\* The SPEEDUP branch (lines 735-748).
executeSpeedup(c, seekTo) ==
  LET sped == setSpeedAndLog(c, "SILENCE")
      timer == [id |-> NewTimerId(c.timers, c.maybeSeekOrSpeedupTimeoutId),
                kind |-> "setSpeedSounded",
                seekTo |-> NoArg, seekScheduledTo |-> NoArg,
                delay |-> RMul(realTimeLeftUntilDestinationAtSilenceSpeed(Snapshot(c), seekTo),
                               RInt(1000))]
  IN  [sped EXCEPT !.timers = c.timers \cup {timer},
                   !.didNotDoDesyncCorrectionForNSpeedSwitches = @ + 1]

maybeSeekOrSpeedup(c, seekTo, seekScheduledTo) ==
  LET s == Snapshot(c)
      verdict == IF mustCancelSeek(s, seekScheduledTo) THEN "stale" ELSE whatToDo(s, seekTo)
      done == CASE verdict = "SEEK" -> executeSeek(c, seekTo, seekScheduledTo)
                [] verdict = "SPEEDUP" -> executeSpeedup(c, seekTo)
                [] OTHER -> c
  IN  [done EXCEPT !.trace.evaluated = TRUE,
                   !.trace.seekTo = seekTo,
                   !.trace.seekScheduledTo = seekScheduledTo,
                   !.trace.verdict = verdict,
                   !.trace.pre = s]

\* Controller.telemetry (lines 890-910): the fields the controller's state
\* gives; clonePlaybackError is true (<<TRUE>>) or undefined (<<>>).
telemetry ==
  [clonePlaybackError |-> IF clonePlaybackError THEN <<TRUE>> ELSE <<>>,
   intrinsicTime |-> element.currentTime,
   lastActualPlaybackRateChange |-> lastActualPlaybackRateChange,
   lastSilenceSkippingSeek |-> lastSilenceSkippingSeek]

---------------------------------------------------------------------------
(* Controller._throttledInitLookahead = throttle(this._initLookahead, 1000) *)
(* (lodash: debounce with a leading and a trailing edge and maxWait =      *)
(* wait).  Its state is [timer, timerLeft, lastArgs, called, sinceLastCall, *)
(* sinceLastInvoke]: whether its timer is armed and the time left until it  *)
(* is due, whether a call awaits the trailing edge, whether it was called   *)
(* since it was made or cancelled (lastCallTime is defined), and the time   *)
(* since its last call and since its last invocation of _initLookahead.     *)
(* Time is counted in ticks, TicksPerSecond to the second, and a time of    *)
(* initLookaheadThrottleWait ticks or more is kept as that many.  The field *)
(* sinceInitLookahead is a history of the controller: the time since        *)
(* _initLookahead last ran, which cancel() does not forget.                 *)
(* A specification that lets no time pass gives `elapsed`, the answer of    *)
(* shouldInvoke, as an input.                                               *)

TicksPerSecond == 2

\* throttle(this._initLookahead, 1000): 1000 ms.
initLookaheadThrottleWait == TicksPerSecond

Min(a, b) == IF a <= b THEN a ELSE b

IdleThrottle ==
  [timer |-> FALSE, timerLeft |-> 0, lastArgs |-> FALSE, called |-> FALSE,
   sinceLastCall |-> initLookaheadThrottleWait,
   sinceLastInvoke |-> initLookaheadThrottleWait,
   sinceInitLookahead |-> initLookaheadThrottleWait]

\* A mutant: a detector made anew starts with a clean record.
initLookaheadClearingError(c) ==
  [c EXCEPT !.lookahead = "live",
            !.clonePlaybackError = FALSE,
            !.throttledInitLookahead.sinceInitLookahead = 0,
            !.trace.created = TRUE]

\* The callback the controller gives to every detector it makes (lines 220, 779).
onClonePlaybackError(c) == [c EXCEPT !.clonePlaybackError = TRUE]

\* Controller._initLookahead (lines 774-783).
initLookahead(c) ==
  [c EXCEPT !.lookahead = "live",
            !.throttledInitLookahead.sinceInitLookahead = 0,
            !.trace.created = TRUE]

\* lodash's shouldInvoke(time).
shouldInvoke(th) ==
  \/ ~th.called
  \/ th.sinceLastCall >= initLookaheadThrottleWait
  \/ th.sinceLastInvoke >= initLookaheadThrottleWait

\* lodash's remainingWait(time).
remainingWait(th) ==
  Min(initLookaheadThrottleWait - th.sinceLastCall,
      initLookaheadThrottleWait - th.sinceLastInvoke)

\* The throttled function is called: lodash's debounced(), leadingEdge and invokeFunc.
callThrottledInitLookahead(c, elapsed) ==
  IF ~c.throttledInitLookahead.called \/ elapsed
  THEN [initLookahead(c) EXCEPT
          !.throttledInitLookahead.timer = TRUE,
          !.throttledInitLookahead.timerLeft = initLookaheadThrottleWait,
          !.throttledInitLookahead.lastArgs = FALSE,
          !.throttledInitLookahead.called = TRUE,
          !.throttledInitLookahead.sinceLastCall = 0,
          !.throttledInitLookahead.sinceLastInvoke = 0]
  ELSE [c EXCEPT
          !.throttledInitLookahead.timerLeft =
             IF c.throttledInitLookahead.timer THEN @ ELSE initLookaheadThrottleWait,
          !.throttledInitLookahead.timer = TRUE,
          !.throttledInitLookahead.lastArgs = TRUE,
          !.throttledInitLookahead.called = TRUE,
          !.throttledInitLookahead.sinceLastCall = 0]

\* The throttle's timer is run: lodash's timerExpired and trailingEdge.
throttleTimerExpired(c, elapsed) ==
  IF elapsed
  THEN LET invoked == IF c.throttledInitLookahead.lastArgs
                      THEN [initLookahead(c) EXCEPT !.throttledInitLookahead.sinceLastInvoke = 0]
                      ELSE c
       IN  [invoked EXCEPT !.throttledInitLookahead.timer = FALSE,
                           !.throttledInitLookahead.timerLeft = 0,
                           !.throttledInitLookahead.lastArgs = FALSE]
  ELSE [c EXCEPT !.throttledInitLookahead.timerLeft = remainingWait(c.throttledInitLookahead)]

\* lodash's cancel().
cancelThrottledInitLookahead(c) ==
  [c EXCEPT !.throttledInitLookahead =
              [IdleThrottle EXCEPT !.sinceInitLookahead =
                                     c.throttledInitLookahead.sinceInitLookahead]]

\* Controller.destroyAndThrottledInitLookahead (lines 785-789).
destroyAndThrottledInitLookahead(c, elapsed) ==
  callThrottledInitLookahead([c EXCEPT !.lookahead = "none", !.trace.requested = TRUE],
                             elapsed)

---------------------------------------------------------------------------
(* Controller.maybeScheduleMaybeSeekOrSpeedup: the skip scheduler.  r is    *)
(* what getNextSilenceRange(currentTime) returns when there is a lookahead. *)

\* A mutant: a pending range is cut 3 s short of its end with no lower limit.
seekToOfWithoutMax(r, seekAt) ==
  IF r.pending THEN RSub(r.end, RInt(3)) ELSE r.end

seekAtOf(r, currentTime) == RMax(r.start, currentTime)

seekToOf(r, seekAt) ==
  IF r.pending THEN RMax(seekAt, RSub(r.end, RInt(3))) ELSE r.end

\* A mutant: the delay is computed from the rate the element is playing at.
seekInRealTimeAtElementRate(c, seekAt) ==
  RDiv(RSub(seekAt, c.element.currentTime), c.element.playbackRate)

\* seekInVideoTime / this.settings.soundedSpeed (lines 532-533).
seekInRealTimeOf(c, seekAt) ==
  RDiv(RSub(seekAt, c.element.currentTime), c.settings.soundedSpeed)

\* A mutant: the timer armed before is left to run.
clearNothing(c) == c.timers

\* clearTimeout(this.maybeSeekOrSpeedupTimeoutId) (line 541).
clearScheduledTimeout(c) == clearTimeout(c.timers, c.maybeSeekOrSpeedupTimeoutId)

\* A mutant: in opposite mode pending ranges are scheduled like final ones.
oppositeDayIgnored(c, r) == FALSE

\* this.settings.isOppositeDay && isTheUpcomingSilenceRangeStillPending (lines 468-472).
oppositeDayAndPending(c, r) == c.settings.isOppositeDay /\ r.pending

\* A mutant: a pending range is acted on however little there is to skip.
neverTooLittleToSkip(r, amountToSkip) == FALSE

\* isTheUpcomingSilenceRangeStillPending && amountToSkip < 3 (line 487).
tooLittleToSkip(r, amountToSkip) == r.pending /\ RLt(amountToSkip, RInt(3))

\* The scheduler from line 463 on: r is the range it was given.
scheduleForRange(c, r) ==
  LET currentTime == c.element.currentTime
      seekAt == seekAtOf(r, currentTime)
      seekTo == seekToOf(r, seekAt)
      amountToSkip == RSub(seekTo, currentTime)
      seekInRealTime == seekInRealTimeOf(c, seekAt)
      cleared == [c EXCEPT
                    !.timers = clearScheduledTimeout(c),
                    !.trace.cancelled =
                      \E t \in c.timers : t.id = c.maybeSeekOrSpeedupTimeoutId]
      id == NewTimerId(cleared.timers, c.maybeSeekOrSpeedupTimeoutId)
  IN  IF oppositeDayAndPending(c, r)
      THEN [c EXCEPT !.trace.scheduled = "oppositePending"]
      ELSE IF tooLittleToSkip(r, amountToSkip)
      THEN [c EXCEPT !.trace.scheduled = "tooShort"]
      ELSE IF RLe(seekInRealTime, RZero)
      THEN maybeSeekOrSpeedup([cleared EXCEPT !.trace.scheduled = "sync"], seekTo, seekAt)
      ELSE [cleared EXCEPT
              !.trace.scheduled = "armed",
              !.trace.seekTo = seekTo,
              !.trace.seekScheduledTo = seekAt,
              !.maybeSeekOrSpeedupTimeoutId = id,
              !.timers = @ \cup {[id |-> id, kind |-> "maybeSeekOrSpeedup",
                                  seekTo |-> seekTo, seekScheduledTo |-> seekAt,
                                  delay |-> RMul(seekInRealTime, RInt(1000))]}]

\* A mutant: the timer armed before is cancelled before the range is looked at.
maybeScheduleClearingFirst(c, r) ==
  LET maybeUpcomingSilenceRange == IF c.lookahead = "none" THEN NoRange ELSE r
      called == [c EXCEPT !.trace.timeAtScheduling = c.element.currentTime,
                          !.trace.range = maybeUpcomingSilenceRange,
                          !.timers = clearScheduledTimeout(c)]
  IN  IF ~maybeUpcomingSilenceRange.some
      THEN [called EXCEPT !.trace.scheduled = "noRange"]
      ELSE scheduleForRange(called, maybeUpcomingSilenceRange)

maybeScheduleMaybeSeekOrSpeedup(c, r) ==
  LET maybeUpcomingSilenceRange == IF c.lookahead = "none" THEN NoRange ELSE r
      called == [c EXCEPT !.trace.timeAtScheduling = c.element.currentTime,
                          !.trace.range = maybeUpcomingSilenceRange]
  IN  IF ~maybeUpcomingSilenceRange.some
      THEN [called EXCEPT !.trace.scheduled = "noRange"]
      ELSE scheduleForRange(called, maybeUpcomingSilenceRange)

---------------------------------------------------------------------------
(* Settings.                                                               *)

\* An absent settings object (null, undefined) is <<>>, a present one <<settings>>.
NoSettings == <<>>

\* A mutant: init() leaves the settings as the constructor got them.
assignNothing(target, pending) == target

\* Object.assign(this.settings, this._pendingSettingsUpdates) (line 447): a
\* settings object has every field, and an absent source assigns nothing.
assignPendingSettings(target, pending) ==
  IF pending = NoSettings THEN target ELSE pending[1]

\* A mutant: a new soundedSpeed leaves the scheduler's timer to the scheduler.
setStateAccordingToNewSettingsKeepingTimer(c, newSettings, oldSettings, r, elapsed) ==
  LET withSettings == [c EXCEPT !.settings = newSettings, !.trace.recomputed = @ + 1]
      withDefault ==
        [withSettings EXCEPT !.element = setDefaultPlaybackRateAndRememberIt(
           @, getActualPlaybackRateForSpeed(newSettings.soundedSpeed,
                                            newSettings.volumeThreshold))]
      sounded == setSpeedAndLog(withDefault, "SOUNDED")
      lookaheadSettingsChanged ==
        /\ oldSettings # NoSettings
        /\ \/ newSettings.volumeThreshold # oldSettings[1].volumeThreshold
           \/ newSettings.marginBefore # oldSettings[1].marginBefore
           \/ newSettings.marginAfter # oldSettings[1].marginAfter
           \/ newSettings.isOppositeDay # oldSettings[1].isOppositeDay
      rebuilt == IF lookaheadSettingsChanged
                 THEN destroyAndThrottledInitLookahead(sounded, elapsed)
                 ELSE sounded
      soundedSpeedChanged ==
        IF oldSettings = NoSettings THEN TRUE
        ELSE newSettings.soundedSpeed # oldSettings[1].soundedSpeed
  IN  IF soundedSpeedChanged
      THEN maybeScheduleMaybeSeekOrSpeedup(rebuilt, r)
      ELSE rebuilt

\* Controller._setStateAccordingToNewSettings; oldSettings is NoSettings for null.
setStateAccordingToNewSettings(c, newSettings, oldSettings, r, elapsed) ==
  LET withSettings == [c EXCEPT !.settings = newSettings, !.trace.recomputed = @ + 1]
      withDefault ==
        [withSettings EXCEPT !.element = setDefaultPlaybackRateAndRememberIt(
           @, getActualPlaybackRateForSpeed(newSettings.soundedSpeed,
                                            newSettings.volumeThreshold))]
      sounded == setSpeedAndLog(withDefault, "SOUNDED")
      lookaheadSettingsChanged ==
        /\ oldSettings # NoSettings
        /\ \/ newSettings.volumeThreshold # oldSettings[1].volumeThreshold
           \/ newSettings.marginBefore # oldSettings[1].marginBefore
           \/ newSettings.marginAfter # oldSettings[1].marginAfter
           \/ newSettings.isOppositeDay # oldSettings[1].isOppositeDay
      rebuilt == IF lookaheadSettingsChanged
                 THEN destroyAndThrottledInitLookahead(sounded, elapsed)
                 ELSE sounded
      soundedSpeedChanged ==
        IF oldSettings = NoSettings THEN TRUE
        ELSE newSettings.soundedSpeed # oldSettings[1].soundedSpeed
  IN  IF soundedSpeedChanged
      THEN maybeScheduleMaybeSeekOrSpeedup(
             [rebuilt EXCEPT
                !.timers = clearTimeout(@, rebuilt.maybeSeekOrSpeedupTimeoutId),
                !.trace.cleared =
                  \E t \in rebuilt.timers : t.id = rebuilt.maybeSeekOrSpeedupTimeoutId], r)
      ELSE rebuilt

---------------------------------------------------------------------------
(* The steps of the system.  D gives the values a specification draws its  *)
(* inputs from: D.positions (media times the element can be at), D.ranges  *)
(* (answers of the lookahead), D.settings (settings objects), D.bugs       *)
(* (values of browserHasAudioDesyncBug), D.pasts (seek durations observed  *)
(* before the first step), D.maxSwitches and D.maxRestoreTimers (bounds).  *)

\* What shouldInvoke answers: where time is counted (D.clocked) the state of
\* the throttle decides; elsewhere the wait may or may not have elapsed, which
\* matters once the throttle has been called.
Elapsed(D) ==
  IF D.clocked THEN {shouldInvoke(throttledInitLookahead)}
  ELSE IF throttledInitLookahead.called THEN BOOLEAN ELSE {FALSE}

\* The history variable keeps the engine's arguments and the state it found
\* only where D.observed says so: a specification whose claims do not read
\* them does without.
Observed(D, c) ==
  IF D.observed THEN c
  ELSE [c EXCEPT !.trace = [NoTrace(c.trace.op) EXCEPT !.scheduled = c.trace.scheduled,
                                                       !.cancelled = c.trace.cancelled,
                                                       !.evaluated = c.trace.evaluated,
                                                       !.verdict = c.trace.verdict,
                                                       !.submitted = c.trace.submitted,
                                                       !.queued = c.trace.queued,
                                                       !.recomputed = c.trace.recomputed,
                                                       !.requested = c.trace.requested,
                                                       !.created = c.trace.created]]

WithinBounds(D, c) ==
  /\ c.didNotDoDesyncCorrectionForNSpeedSwitches <= D.maxSwitches
  /\ Cardinality(RestoreTimers(c.timers)) <= D.maxRestoreTimers

\* What getNextSilenceRange may answer; it is asked only if there is a lookahead
\* (line 459) and, in a settings update, only if the scheduler is called (line 834).
Answers(D) == IF lookahead = "none" THEN {NoRange} ELSE D.ranges \cup {NoRange}
AnswersIf(D, asked) == IF asked THEN Answers(D) ELSE {NoRange}

RECURSIVE ProphetAfter(_, _, _)
\* The estimator after seeks of the given durations, each begun as the one before ended.
ProphetAfter(p, t, durations) ==
  IF durations = <<>> THEN p
  ELSE ProphetAfter(onSeeked(onSeeking(p, t), t + Head(durations)),
                    t + Head(durations), Tail(durations))

RECURSIVE LogAfter(_, _)
LogAfter(t, durations) ==
  IF durations = <<>> THEN <<>>
  ELSE <<[type |-> "seeking", timeStamp |-> t],
         [type |-> "seeked", timeStamp |-> t + Head(durations)]>>
       \o LogAfter(t + Head(durations), Tail(durations))

\* destruction: called counts the calls of destroy(), awaiting those of them
\* that still wait for _initPromise (line 764), callbacksRun the times the
\* callbacks of the controller's _destroyedPromise have run, threw says
\* whether a call has thrown, and formerProphets keeps every estimator that
\* 'loadstart' has replaced (lines 283-285): the element and the callbacks of
\* the controller's _destroyedPromise still refer to it.
NoDestruction ==
  [called |-> 0, awaiting |-> 0, callbacksRun |-> 0, threw |-> FALSE, formerProphets |-> {}]

MaxDestroyCalls == 2

ProphetLog(p) == p

\* The state once the constructor has returned (lines 208-243).
InitOver(D) ==
  /\ \E past \in D.pasts :
       /\ now = SeqSum(past)
       /\ eventLog = LogAfter(0, past)
       /\ seekDurationProphet = ProphetAfter(NewSeekDurationProphet(0), 0, past)
  /\ element = [currentTime |-> D.startTime, paused |-> FALSE,
                playbackRate |-> ROne, defaultPlaybackRate |-> ROne]
  /\ settings \in D.settings
  /\ browserHasAudioDesyncBug \in D.bugs
  /\ initPhase = "constructed"
  /\ initialized = FALSE
  /\ pendingSettingsUpdates = NoSettings
  /\ destroyPhase = "no"
  /\ destruction = NoDestruction
  /\ lookahead = "live"
  /\ clonePlaybackError = FALSE
  /\ didNotDoDesyncCorrectionForNSpeedSwitches = 0
  /\ lastSilenceSkippingSeek = <<>>
  /\ maybeSeekOrSpeedupTimeoutId = -1
  /\ timers = {}
  /\ rateBeforeInit = <<>>
  /\ lastActualPlaybackRateChange = [name |-> "SOUNDED", value |-> ROne]
  /\ throttledInitLookahead = IdleThrottle
  /\ trace = NoTrace("constructor")

\* What destroy() does between its await and _resolveDestroyedPromise (lines 766-767).
destroyLookahead(c) ==
  [cancelThrottledInitLookahead(c) EXCEPT
     !.lookahead = IF @ = "live" THEN "destroyed" ELSE @]

\* What destroy() does to the controller's own state when the callbacks of
\* _destroyedPromise run (lines 766-769, 258-261): the callbacks run in the
\* same task, one microtask after the other.
teardown(c, rates) ==
  [destroyLookahead(c) EXCEPT
     !.element = setDefaultPlaybackRateAndRememberIt(
                   setPlaybackRateAndRememberIt(@, rates[1]), rates[2])]

\* A mutant: the callbacks run every time the promise is resolved.
destroyedCallbacksDueAlways(phase) == TRUE

\* _resolveDestroyedPromise (line 769): the callbacks of a promise run when it
\* is resolved for the first time.
destroyedCallbacksDue(phase) == phase # "done"

\* Listeners are removed by the callbacks of _destroyedPromise (lines 269, 288, 299).
TimeupdateListenerOn == initPhase \in {"listening", "done"} /\ destroyPhase # "done"
SourceListenersOn == initPhase # "constructed" /\ destroyPhase # "done"

\* A mutant: _initPromise is resolved from the start.
initPromiseResolvedFromTheStart(phase) == TRUE

\* _initPromise is resolved by init() after its awaits (line 445); the code
\* that waits for it goes on once init() has returned.
initPromiseResolved(phase) == phase = "done"

\* A destroy() that need not wait for _initPromise any longer goes on in a
\* microtask, before the next event or timer is handled.
NoMicrotaskPending == ~(initPromiseResolved(initPhase) /\ destruction.awaiting > 0)

\* init() up to its first await (lines 249-441).
InitStart ==
  /\ initPhase = "constructed"
  /\ initPhase' = "started"
  /\ rateBeforeInit' = <<element.playbackRate, element.defaultPlaybackRate>>
  /\ trace' = NoTrace("InitStart")
  /\ UNCHANGED <<now, eventLog, clonePlaybackError,
                 element, settings, browserHasAudioDesyncBug, initialized,
                 pendingSettingsUpdates, destroyPhase, destruction, lookahead, seekDurationProphet,
                 didNotDoDesyncCorrectionForNSpeedSwitches, lastSilenceSkippingSeek,
                 maybeSeekOrSpeedupTimeoutId, timers, lastActualPlaybackRateChange,
                 throttledInitLookahead>>

\* lookahead.ensureInit() resolves: the 'timeupdate' listener is added (lines 263-270).
InitLookaheadReady ==
  /\ initPhase = "started"
  /\ initPhase' = "listening"
  /\ trace' = NoTrace("InitLookaheadReady")
  /\ UNCHANGED <<now, eventLog, clonePlaybackError,
                 element, settings, browserHasAudioDesyncBug, initialized,
                 pendingSettingsUpdates, destroyPhase, destruction, lookahead, seekDurationProphet,
                 didNotDoDesyncCorrectionForNSpeedSwitches, lastSilenceSkippingSeek,
                 maybeSeekOrSpeedupTimeoutId, timers, rateBeforeInit,
                 lastActualPlaybackRateChange, throttledInitLookahead>>

\* The rest of init() (lines 442-449).
InitComplete(D) ==
  /\ initPhase = "listening"
  /\ \E r \in Answers(D), elapsed \in Elapsed(D) :
       LET assigned == assignPendingSettings(settings, pendingSettingsUpdates)
       IN  \E c \in {Observed(D, setStateAccordingToNewSettings(
                                    [Ctl EXCEPT !.trace = [NoTrace("InitComplete") EXCEPT
                                                            !.queued = pendingSettingsUpdates]],
                                    assigned, NoSettings, r, elapsed))} :
             /\ WithinBounds(D, c)
             /\ SetCtl(c)
  /\ initPhase' = "done"
  /\ initialized' = TRUE
  /\ pendingSettingsUpdates' = NoSettings
  /\ UNCHANGED <<now, eventLog, browserHasAudioDesyncBug, destroyPhase, destruction,
                 seekDurationProphet, rateBeforeInit>>

\* Controller.updateSettingsAndMaybeCreateNewInstance.
UpdateSettings(D) ==
  /\ destroyPhase = "no"
  /\ \E newSettings \in D.settings :
     \E r \in AnswersIf(D, initialized /\ newSettings.soundedSpeed # settings.soundedSpeed),
        elapsed \in Elapsed(D) :
       IF initialized
       THEN \E c \in {Observed(D, setStateAccordingToNewSettings(
                          [Ctl EXCEPT !.trace = [NoTrace("UpdateSettings") EXCEPT
                                                  !.submitted = <<newSettings>>]],
                          newSettings, <<settings>>, r, elapsed))} :
              /\ WithinBounds(D, c)
              /\ SetCtl(c)
              /\ UNCHANGED pendingSettingsUpdates
       ELSE /\ pendingSettingsUpdates' = <<newSettings>>
            /\ trace' = [NoTrace("UpdateSettings") EXCEPT !.submitted = <<newSettings>>]
            /\ UNCHANGED <<element, settings, lookahead, clonePlaybackError,
                           didNotDoDesyncCorrectionForNSpeedSwitches,
                           lastSilenceSkippingSeek, maybeSeekOrSpeedupTimeoutId, timers,
                           lastActualPlaybackRateChange, throttledInitLookahead>>
  /\ UNCHANGED <<now, eventLog, browserHasAudioDesyncBug, initPhase, initialized,
                 destroyPhase, destruction, seekDurationProphet, rateBeforeInit>>

\* Controller.destroy() is called: it begins to wait for _initPromise (line 764).
Destroy ==
  /\ destruction.called < MaxDestroyCalls
  /\ destruction' = [destruction EXCEPT !.called = @ + 1, !.awaiting = @ + 1]
  /\ destroyPhase' = IF destroyPhase = "no" THEN "called" ELSE destroyPhase
  /\ trace' = NoTrace("Destroy")
  /\ UNCHANGED <<now, eventLog, clonePlaybackError,
                 element, settings, browserHasAudioDesyncBug, initPhase,
                 initialized, pendingSettingsUpdates, lookahead, seekDurationProphet,
                 didNotDoDesyncCorrectionForNSpeedSwitches, lastSilenceSkippingSeek,
                 maybeSeekOrSpeedupTimeoutId, timers, rateBeforeInit,
                 lastActualPlaybackRateChange, throttledInitLookahead>>

\* The rest of a destroy() whose wait is over (lines 765-769), with the
\* callbacks of _destroyedPromise (lines 232, 258-261, 269, 285, 288, 299).
DestroyResumes ==
  /\ destruction.awaiting > 0
  /\ initPromiseResolved(initPhase)
  /\ IF ~initialized
     THEN \* assertDev(this.isInitialized()) fails
          /\ destruction' = [destruction EXCEPT !.awaiting = @ - 1, !.threw = TRUE]
          /\ trace' = NoTrace("DestroyResumes")
          /\ UNCHANGED <<element, settings, lookahead, clonePlaybackError,
                         seekDurationProphet, destroyPhase,
                         didNotDoDesyncCorrectionForNSpeedSwitches,
                         lastSilenceSkippingSeek, maybeSeekOrSpeedupTimeoutId, timers,
                         lastActualPlaybackRateChange, throttledInitLookahead>>
     ELSE IF destroyedCallbacksDue(destroyPhase)
     THEN /\ \E c \in {teardown([Ctl EXCEPT !.trace = NoTrace("DestroyResumes")],
                                 rateBeforeInit)} : SetCtl(c)
          /\ seekDurationProphet' = destroy(seekDurationProphet)
          /\ destruction' = [destruction EXCEPT
                               !.awaiting = @ - 1,
                               !.callbacksRun = @ + 1,
                               !.formerProphets = {ProphetLog(destroy(p)) : p \in @}]
          /\ destroyPhase' = "done"
     ELSE /\ \E c \in {destroyLookahead([Ctl EXCEPT !.trace = NoTrace("DestroyResumes")])} :
               SetCtl(c)
          /\ destruction' = [destruction EXCEPT !.awaiting = @ - 1]
          /\ UNCHANGED <<seekDurationProphet, destroyPhase>>
  /\ UNCHANGED <<now, eventLog, browserHasAudioDesyncBug, initPhase, initialized,
                 pendingSettingsUpdates, rateBeforeInit>>

\* A 'timeupdate' event: onTimeupdate (lines 265-267).
TimeUpdate(D) ==
  /\ TimeupdateListenerOn
  /\ NoMicrotaskPending
  /\ \E r \in Answers(D) :
       \E c \in {Observed(D, maybeScheduleMaybeSeekOrSpeedup(
                    [Ctl EXCEPT !.trace = NoTrace("TimeUpdate")], r))} :
         /\ WithinBounds(D, c)
         /\ SetCtl(c)
  /\ UNCHANGED <<now, eventLog, browserHasAudioDesyncBug, initPhase, initialized,
                 pendingSettingsUpdates, destroyPhase, destruction, seekDurationProphet,
                 rateBeforeInit>>

\* The scheduler's timer fires: maybeSeekOrSpeedupBounded(seekTo, seekAt).
ScheduledTimerFires(D) ==
  \E t \in SeekTimers(timers) :
    /\ NoMicrotaskPending
    /\ \E c \in {Observed(D, maybeSeekOrSpeedup(
                 [Ctl EXCEPT !.timers = @ \ {t}, !.trace = NoTrace("ScheduledTimerFires")],
                 t.seekTo, t.seekScheduledTo))} :
        /\ WithinBounds(D, c)
        /\ SetCtl(c)
        /\ UNCHANGED <<now, eventLog, browserHasAudioDesyncBug, initPhase, initialized,
                       pendingSettingsUpdates, destroyPhase, destruction, seekDurationProphet,
                       rateBeforeInit>>

\* The rate-restoration timer fires: () => this._setSpeedAndLog(SpeedName.SOUNDED).
RestoreTimerFires ==
  \E t \in RestoreTimers(timers) :
    /\ NoMicrotaskPending
    /\ \E c \in {setSpeedAndLog(
                   [Ctl EXCEPT !.timers = @ \ {t}, !.trace = NoTrace("RestoreTimerFires")],
                   "SOUNDED")} : SetCtl(c)
    /\ UNCHANGED <<now, eventLog, browserHasAudioDesyncBug, initPhase, initialized,
                   pendingSettingsUpdates, destroyPhase, destruction, seekDurationProphet,
                   rateBeforeInit>>

\* The throttle's timer fires.
ThrottleTimerFires(D) ==
  /\ throttledInitLookahead.timer
  /\ D.clocked => throttledInitLookahead.timerLeft = 0
  /\ NoMicrotaskPending
  /\ \E elapsed \in (IF D.clocked THEN {shouldInvoke(throttledInitLookahead)} ELSE {TRUE}) :
       \E c \in {throttleTimerExpired([Ctl EXCEPT !.trace = NoTrace("ThrottleTimerFires")],
                                      elapsed)} : SetCtl(c)
  /\ UNCHANGED <<now, eventLog, browserHasAudioDesyncBug, initPhase, initialized,
                 pendingSettingsUpdates, destroyPhase, destruction, seekDurationProphet,
                 rateBeforeInit>>

\* An 'emptied' event: onOldSrcGone (lines 294-297).
Emptied ==
  /\ SourceListenersOn
  /\ NoMicrotaskPending
  /\ lookahead # "none"
  /\ SetCtl([Ctl EXCEPT !.lookahead = "none", !.trace = NoTrace("Emptied")])
  /\ UNCHANGED <<now, eventLog, browserHasAudioDesyncBug, initPhase, initialized,
                 pendingSettingsUpdates, destroyPhase, destruction, seekDurationProphet,
                 rateBeforeInit>>

\* A 'loadstart' event: onNewSrc (lines 272-286).
Loadstart(D) ==
  /\ SourceListenersOn
  /\ NoMicrotaskPending
  /\ \E elapsed \in Elapsed(D) :
       \E c \in {destroyAndThrottledInitLookahead(
                    [Ctl EXCEPT !.trace = NoTrace("Loadstart")], elapsed)} : SetCtl(c)
  /\ seekDurationProphet' = NewSeekDurationProphet(now)
  /\ destruction' = [destruction EXCEPT
                       !.formerProphets = @ \cup {ProphetLog(destroy(seekDurationProphet))}]
  /\ UNCHANGED <<now, eventLog, browserHasAudioDesyncBug, initPhase, initialized,
                 pendingSettingsUpdates, destroyPhase, rateBeforeInit>>

\* The element's position changes: playback goes on, or the user seeks.
ElementTimeChanges(D) ==
  /\ \E p \in D.positions \ {element.currentTime} :
       element' = [element EXCEPT !.currentTime = p]
  /\ trace' = NoTrace("ElementTimeChanges")
  /\ UNCHANGED <<now, eventLog, clonePlaybackError,
                 settings, browserHasAudioDesyncBug, initPhase, initialized,
                 pendingSettingsUpdates, destroyPhase, destruction, lookahead, seekDurationProphet,
                 didNotDoDesyncCorrectionForNSpeedSwitches, lastSilenceSkippingSeek,
                 maybeSeekOrSpeedupTimeoutId, timers, rateBeforeInit,
                 lastActualPlaybackRateChange, throttledInitLookahead>>

\* A detector reports that its clone cannot be played: it runs the callback
\* it was given.  A detector that has been destroyed may still do so.
ClonePlaybackError ==
  /\ SetCtl(onClonePlaybackError([Ctl EXCEPT !.trace = NoTrace("ClonePlaybackError")]))
  /\ UNCHANGED <<now, eventLog, browserHasAudioDesyncBug, initPhase, initialized,
                 pendingSettingsUpdates, destroyPhase, destruction, seekDurationProphet,
                 rateBeforeInit>>

\* The element is paused or resumed.
ElementPausedChanges ==
  /\ element' = [element EXCEPT !.paused = ~@]
  /\ trace' = NoTrace("ElementPausedChanges")
  /\ UNCHANGED <<now, eventLog, clonePlaybackError,
                 settings, browserHasAudioDesyncBug, initPhase, initialized,
                 pendingSettingsUpdates, destroyPhase, destruction, lookahead, seekDurationProphet,
                 didNotDoDesyncCorrectionForNSpeedSwitches, lastSilenceSkippingSeek,
                 maybeSeekOrSpeedupTimeoutId, timers, rateBeforeInit,
                 lastActualPlaybackRateChange, throttledInitLookahead>>

\* A tick of time passes: the throttle's timer comes nearer, what has
\* happened lies further back.
TimePasses ==
  /\ throttledInitLookahead' =
       [throttledInitLookahead EXCEPT
          !.timerLeft = IF @ > 0 THEN @ - 1 ELSE 0,
          !.sinceLastCall = Min(@ + 1, initLookaheadThrottleWait),
          !.sinceLastInvoke = Min(@ + 1, initLookaheadThrottleWait),
          !.sinceInitLookahead = Min(@ + 1, initLookaheadThrottleWait)]
  /\ trace' = NoTrace("TimePasses")
  /\ UNCHANGED <<now, eventLog, clonePlaybackError,
                 element, settings, browserHasAudioDesyncBug, initPhase,
                 initialized, pendingSettingsUpdates, destroyPhase, destruction, lookahead,
                 seekDurationProphet, didNotDoDesyncCorrectionForNSpeedSwitches,
                 lastSilenceSkippingSeek, maybeSeekOrSpeedupTimeoutId, timers,
                 rateBeforeInit, lastActualPlaybackRateChange>>

---------------------------------------------------------------------------
(* The element's seek events and the clock, for the estimator.             *)

MaxNow == 3
MaxEvents == 7

Tick ==
  /\ now < MaxNow
  /\ now' = now + 1
  /\ trace' = NoTrace("Tick")
  /\ UNCHANGED <<eventLog, seekDurationProphet, controllerVars>>

\* The variables of the controller that a seek event leaves alone.
seekEventUnchanged == <<element, settings, browserHasAudioDesyncBug, initPhase,
          initialized, pendingSettingsUpdates, destroyPhase, lookahead,
          clonePlaybackError, didNotDoDesyncCorrectionForNSpeedSwitches,
          lastSilenceSkippingSeek, maybeSeekOrSpeedupTimeoutId, timers,
          rateBeforeInit, lastActualPlaybackRateChange, throttledInitLookahead>>

\* An estimator's listener is run if it is still attached.
heardSeeking(p, timeStamp) == IF p.listening THEN onSeeking(p, timeStamp) ELSE p
heardSeeked(p, timeStamp) == IF p.listening THEN onSeeked(p, timeStamp) ELSE p

\* The element fires 'seeking': every estimator that listens is told.
ElementSeeking ==
  /\ Len(eventLog) < MaxEvents
  /\ eventLog' = Append(eventLog, [type |-> "seeking", timeStamp |-> now])
  /\ seekDurationProphet' = heardSeeking(seekDurationProphet, now)
  /\ destruction' = [destruction EXCEPT
                       !.formerProphets = {heardSeeking(p, now) : p \in @}]
  /\ trace' = NoTrace("ElementSeeking")
  /\ UNCHANGED <<now, seekEventUnchanged>>

\* The element fires 'seeked': every estimator that listens is told.
ElementSeeked ==
  /\ Len(eventLog) < MaxEvents
  /\ eventLog' = Append(eventLog, [type |-> "seeked", timeStamp |-> now])
  /\ seekDurationProphet' = heardSeeked(seekDurationProphet, now)
  /\ destruction' = [destruction EXCEPT
                       !.formerProphets = {heardSeeked(p, now) : p \in @}]
  /\ trace' = NoTrace("ElementSeeked")
  /\ UNCHANGED <<now, seekEventUnchanged>>

---------------------------------------------------------------------------
(* Specifications.                                                         *)

ControllerSettings(soundedSpeed, silenceSpeed, enableDesyncCorrection, isOppositeDay) ==
  [soundedSpeed |-> soundedSpeed, silenceSpeed |-> silenceSpeed,
   volumeThreshold |-> 0, marginBefore |-> 0, marginAfter |-> 0,
   enableDesyncCorrection |-> enableDesyncCorrection, isOppositeDay |-> isOppositeDay]

MaxSwitches == 2
MaxSwitchesLifecycle == 1
MaxRestoreTimers == 1

\* The whole controller, from its construction to its destruction, with few
\* values of everything and an element that is never paused; it starts before
\* the ranges and moves forward to where they begin.
DSpec ==
  [startTime |-> RZero,
   positions |-> {ROne},
   ranges |-> {Range(ROne, RInt(2), FALSE), Range(ROne, Rat(11, 10), FALSE)},
   settings |-> {ControllerSettings(ROne, RInt(4), TRUE, FALSE),
                 ControllerSettings(RInt(2), RInt(4), TRUE, FALSE)},
   bugs |-> {TRUE},
   pasts |-> {<<>>},
   maxSwitches |-> MaxSwitchesLifecycle,
   maxRestoreTimers |-> MaxRestoreTimers,
   observed |-> FALSE,
   clocked |-> FALSE]

NextOver(D) ==
  \/ InitStart
  \/ InitLookaheadReady
  \/ InitComplete(D)
  \/ UpdateSettings(D)
  \/ Destroy
  \/ DestroyResumes
  \/ TimeUpdate(D)
  \/ ScheduledTimerFires(D)
  \/ RestoreTimerFires
  \/ ThrottleTimerFires(D)
  \/ Emptied
  \/ Loadstart(D)
  \/ ElementTimeChanges(D)

Init == InitOver(DSpec)
Next == NextOver(DSpec)
Spec == Init /\ [][Next]_vars

\* The same with the timers of the browser: a callback given to setTimeout
\* (line 741) and never cleared is eventually run.
SpecFair == Spec /\ WF_vars(RestoreTimerFires) /\ WF_vars(DestroyResumes)

\* The life of a controller from its construction to its destruction, with
\* the events of the element in between, and an init() that, once called, goes on: the detector's
\* ensureInit() resolves (line 263), requestIdlePromise({ timeout: 2000 })
\* resolves (line 443), and the code that waits for a resolved promise is run.
DInit ==
  [startTime |-> RZero,
   positions |-> {ROne},
   ranges |-> {Range(ROne, RInt(2), FALSE)},
   settings |-> {ControllerSettings(ROne, RInt(4), FALSE, FALSE),
                 ControllerSettings(RInt(2), RInt(4), FALSE, FALSE)},
   bugs |-> {TRUE},
   pasts |-> {<<>>, <<3000>>},
   maxSwitches |-> MaxSwitchesLifecycle,
   maxRestoreTimers |-> MaxRestoreTimers,
   observed |-> FALSE,
   clocked |-> FALSE]

NextInitOver(D) ==
  \/ InitStart
  \/ InitLookaheadReady
  \/ InitComplete(D)
  \/ Destroy
  \/ DestroyResumes
  \/ TimeUpdate(D)
  \/ ScheduledTimerFires(D)
  \/ RestoreTimerFires
  \/ Emptied
  \/ ElementTimeChanges(D)

InitInit == InitOver(DInit)
NextInit == NextInitOver(DInit)
SpecInit == InitInit /\ [][NextInit]_vars
SpecInitFair ==
  /\ SpecInit
  /\ WF_vars(InitLookaheadReady)
  /\ WF_vars(InitComplete(DInit))
  /\ WF_vars(DestroyResumes)

\* The state once init() has completed, when no range was known at that
\* moment and no event has arrived since the construction.
InitInitialized(D) ==
  /\ \E past \in D.pasts :
       /\ now = SeqSum(past)
       /\ eventLog = LogAfter(0, past)
       /\ seekDurationProphet = ProphetAfter(NewSeekDurationProphet(0), 0, past)
  /\ settings \in D.settings
  /\ element = [currentTime |-> D.startTime, paused |-> FALSE,
                playbackRate |-> settings.soundedSpeed,
                defaultPlaybackRate |-> settings.soundedSpeed]
  /\ browserHasAudioDesyncBug \in D.bugs
  /\ initPhase = "done"
  /\ initialized = TRUE
  /\ pendingSettingsUpdates = NoSettings
  /\ destroyPhase = "no"
  /\ destruction = NoDestruction
  /\ lookahead = "live"
  /\ clonePlaybackError = FALSE
  /\ didNotDoDesyncCorrectionForNSpeedSwitches = 0
  /\ lastSilenceSkippingSeek = <<>>
  /\ maybeSeekOrSpeedupTimeoutId = -1
  /\ timers = {}
  /\ rateBeforeInit = <<ROne, ROne>>
  /\ lastActualPlaybackRateChange = [name |-> "SOUNDED", value |-> settings.soundedSpeed]
  /\ throttledInitLookahead = IdleThrottle
  /\ trace = [NoTrace("InitComplete") EXCEPT !.scheduled = "noRange", !.recomputed = 1]

\* The scheduler and the engine of an initialized controller whose source
\* and settings stay the same.
NextEngineOver(D) ==
  \/ TimeUpdate(D)
  \/ ScheduledTimerFires(D)
  \/ RestoreTimerFires
  \/ ElementTimeChanges(D)
  \/ ElementPausedChanges

DEngine ==
  [startTime |-> RZero,
   positions |-> {RZero, ROne, Rat(3, 2)},
   ranges |-> {Range(ROne, RInt(2), FALSE), Range(ROne, Rat(101, 100), FALSE),
               Range(ROne, RInt(7), TRUE), Range(RInt(4), RInt(6), TRUE)},
   settings |-> {ControllerSettings(ROne, RInt(4), TRUE, FALSE),
                 ControllerSettings(ROne, RInt(4), FALSE, FALSE),
                 ControllerSettings(RInt(2), RInt(2), FALSE, FALSE)},
   bugs |-> {TRUE},
   pasts |-> {<<>>, <<3000>>, <<1000>>, <<0>>},
   maxSwitches |-> MaxSwitches,
   maxRestoreTimers |-> MaxRestoreTimers,
   observed |-> TRUE,
   clocked |-> FALSE]

InitEngine == InitInitialized(DEngine)
NextEngine == NextEngineOver(DEngine)
SpecEngine == InitEngine /\ [][NextEngine]_vars

\* The scheduler alone, in both modes, with a detector that comes and goes
\* and that may fail.
DSched ==
  [startTime |-> RZero,
   positions |-> {RZero, ROne},
   ranges |-> {Range(ROne, RInt(2), FALSE), Range(ROne, Rat(11, 10), FALSE),
               Range(ROne, RInt(7), TRUE), Range(ROne, RInt(3), TRUE)},
   settings |-> {ControllerSettings(ROne, RInt(4), FALSE, FALSE),
                 ControllerSettings(ROne, RInt(4), FALSE, TRUE)},
   bugs |-> {TRUE},
   pasts |-> {<<>>},
   maxSwitches |-> MaxSwitchesLifecycle,
   maxRestoreTimers |-> MaxRestoreTimers,
   observed |-> TRUE,
   clocked |-> FALSE]

NextSchedOver(D) ==
  \/ ClonePlaybackError
  \/ TimeUpdate(D)
  \/ ScheduledTimerFires(D)
  \/ RestoreTimerFires
  \/ ThrottleTimerFires(D)
  \/ Emptied
  \/ Loadstart(D)
  \/ ElementTimeChanges(D)

InitSched == InitInitialized(DSched)
NextSched == NextSchedOver(DSched)
SpecSched == InitSched /\ [][NextSched]_vars

\* The decision rules one by one: seeks that take 5 ms, 10 ms, 150 ms (no
\* seek seen yet) and 1 s, a range of 10 ms, ranges of about 2 s, and a
\* silence speed that equals the sounded speed.
DRules ==
  [startTime |-> RZero,
   positions |-> {RZero, ROne, Rat(3, 2)},
   ranges |-> {Range(ROne, Rat(101, 100), FALSE), Range(ROne, Rat(147, 50), FALSE),
               Range(ROne, RInt(3), FALSE)},
   settings |-> {ControllerSettings(ROne, RInt(4), TRUE, FALSE),
                 ControllerSettings(ROne, RInt(4), FALSE, FALSE),
                 ControllerSettings(RInt(2), RInt(2), TRUE, FALSE)},
   bugs |-> {TRUE},
   pasts |-> {<<>>, <<5>>, <<10>>, <<1000>>},
   maxSwitches |-> MaxSwitches,
   maxRestoreTimers |-> MaxRestoreTimers,
   observed |-> TRUE,
   clocked |-> FALSE]

InitRules == InitInitialized(DRules)
NextRules == NextEngineOver(DRules)
SpecRules == InitRules /\ [][NextRules]_vars

\* The estimator alone: the clock and the element's seek events.
DProphet ==
  [startTime |-> RZero, positions |-> {RZero}, ranges |-> {},
   settings |-> {ControllerSettings(ROne, RInt(4), TRUE, FALSE)},
   bugs |-> {TRUE}, pasts |-> {<<>>},
   maxSwitches |-> MaxSwitches, maxRestoreTimers |-> MaxRestoreTimers,
   observed |-> FALSE,
   clocked |-> FALSE]

InitProphet == InitOver(DProphet)
NextProphet == Tick \/ ElementSeeking \/ ElementSeeked
SpecProphet == InitProphet /\ [][NextProphet]_vars

\* The desync budget over many speedups: one short range met again and
\* again, seeks that take 3 s, and a user who switches the workaround on and off.
MaxBudget == 22

DDesync ==
  [startTime |-> RZero,
   positions |-> {RZero, Rat(1, 4)},
   ranges |-> {Range(RZero, Rat(1, 4), FALSE), Range(Rat(1, 4), Rat(1, 2), FALSE)},
   settings |-> {ControllerSettings(ROne, RInt(4), TRUE, FALSE),
                 ControllerSettings(ROne, RInt(4), FALSE, FALSE)},
   bugs |-> {TRUE},
   pasts |-> {<<3000>>},
   maxSwitches |-> MaxBudget,
   maxRestoreTimers |-> MaxRestoreTimers,
   observed |-> TRUE,
   clocked |-> FALSE]

NextDesyncOver(D) ==
  \/ UpdateSettings(D)
  \/ TimeUpdate(D)
  \/ ScheduledTimerFires(D)
  \/ RestoreTimerFires
  \/ ElementTimeChanges(D)

InitDesync == InitInitialized(DDesync)
NextDesync == NextDesyncOver(DDesync)
SpecDesync == InitDesync /\ [][NextDesync]_vars

\* A timer of the scheduler that fires late: one range of a quarter of a
\* second, armed for from position 0 and evaluated at 3/4, seeks that take
\* 3 s, and a user who switches the workaround on and off.
DLate ==
  [startTime |-> RZero,
   positions |-> {RZero, Rat(1, 4), Rat(3, 4)},
   ranges |-> {Range(Rat(1, 4), Rat(1, 2), FALSE)},
   settings |-> {ControllerSettings(ROne, RInt(4), TRUE, FALSE),
                 ControllerSettings(ROne, RInt(4), FALSE, FALSE)},
   bugs |-> {TRUE},
   pasts |-> {<<3000>>},
   maxSwitches |-> MaxBudget,
   maxRestoreTimers |-> MaxRestoreTimers,
   observed |-> TRUE,
   clocked |-> FALSE]

InitLate == InitInitialized(DLate)
NextLate == NextDesyncOver(DLate)
SpecLate == InitLate /\ [][NextLate]_vars

\* The forced-seek test alone, as a function of the state it finds and of
\* seekTo: an initialized controller at rest with any budget up to
\* MaxBudget, seeks that take 0 ms, 150 ms (none seen yet) or 3 s, and a
\* destination a quarter of a second behind the element or up to 1 s ahead.
DForce ==
  [startTime |-> RZero,
   positions |-> {RZero, Rat(1, 4), Rat(3, 4)},
   ranges |-> {},
   settings |-> {ControllerSettings(ROne, RInt(4), TRUE, FALSE),
                 ControllerSettings(RInt(2), RInt(4), TRUE, FALSE),
                 ControllerSettings(ROne, RInt(4), FALSE, FALSE)},
   bugs |-> {TRUE, FALSE},
   pasts |-> {<<>>, <<3000>>, <<0>>},
   maxSwitches |-> MaxBudget,
   maxRestoreTimers |-> MaxRestoreTimers,
   observed |-> TRUE,
   clocked |-> FALSE]

ForceSeekTos == {Rat(1, 2), ROne}

InitForce ==
  /\ \E past \in DForce.pasts :
       /\ now = SeqSum(past)
       /\ eventLog = LogAfter(0, past)
       /\ seekDurationProphet = ProphetAfter(NewSeekDurationProphet(0), 0, past)
  /\ settings \in DForce.settings
  /\ \E p \in DForce.positions :
       element = [currentTime |-> p, paused |-> FALSE,
                  playbackRate |-> settings.soundedSpeed,
                  defaultPlaybackRate |-> settings.soundedSpeed]
  /\ browserHasAudioDesyncBug \in DForce.bugs
  /\ initPhase = "done"
  /\ initialized = TRUE
  /\ pendingSettingsUpdates = NoSettings
  /\ destroyPhase = "no"
  /\ destruction = NoDestruction
  /\ lookahead = "live"
  /\ clonePlaybackError = FALSE
  /\ didNotDoDesyncCorrectionForNSpeedSwitches \in 0 .. DForce.maxSwitches
  /\ lastSilenceSkippingSeek = <<>>
  /\ maybeSeekOrSpeedupTimeoutId = -1
  /\ timers = {}
  /\ rateBeforeInit = <<ROne, ROne>>
  /\ lastActualPlaybackRateChange = [name |-> "SOUNDED", value |-> settings.soundedSpeed]
  /\ throttledInitLookahead = IdleThrottle
  /\ trace = NoTrace("InitComplete")

\* needForceSeekForDesyncCorrection() is called for a destination (lines
\* 621-652, called as ifNeedForceSeekThenSeekElse(WhatToDo.NOTHING)): the
\* step records its answer, SEEK for true, and changes nothing.
CallNeedForceSeek ==
  /\ \E seekTo \in ForceSeekTos :
       trace' = [NoTrace("needForceSeekForDesyncCorrection") EXCEPT
                   !.seekTo = seekTo,
                   !.pre = Snapshot(Ctl),
                   !.verdict = ifNeedForceSeekThenSeekElse(Snapshot(Ctl), seekTo, "NOTHING")]
  /\ UNCHANGED <<now, eventLog, seekDurationProphet, controllerVars>>

NextForce == CallNeedForceSeek
SpecForce == InitForce /\ [][NextForce]_vars

\* A change of the sounded speed while the scheduler's timer is armed:
\* ranges that begin at 1, a final one, a pending one long enough to be
\* skipped in part and a pending one too short for it, and settings that
\* differ in soundedSpeed or in enableDesyncCorrection only; seeks take
\* 150 ms (none seen yet) or 3 s.
DRetime ==
  [startTime |-> RZero,
   positions |-> {RZero, Rat(1, 4), ROne},
   ranges |-> {Range(ROne, RInt(2), FALSE), Range(ROne, RInt(7), TRUE),
               Range(ROne, RInt(2), TRUE)},
   settings |-> {ControllerSettings(ROne, RInt(4), FALSE, FALSE),
                 ControllerSettings(RInt(2), RInt(4), FALSE, FALSE),
                 ControllerSettings(ROne, RInt(4), TRUE, FALSE)},
   bugs |-> {TRUE},
   pasts |-> {<<>>, <<3000>>},
   maxSwitches |-> MaxSwitchesLifecycle,
   maxRestoreTimers |-> MaxRestoreTimers,
   observed |-> TRUE,
   clocked |-> FALSE]

InitRetime == InitInitialized(DRetime)
NextRetime == NextDesyncOver(DRetime)
SpecRetime == InitRetime /\ [][NextRetime]_vars

\* The detector's rebuilds in time: an initialized controller whose source
\* and whose detector settings change, with the timers of the browser (the
\* throttle's timer is run once it is due) and the continuation of destroy().
DThrottle ==
  [startTime |-> RZero,
   positions |-> {RZero},
   ranges |-> {},
   settings |-> {ControllerSettings(ROne, RInt(4), FALSE, FALSE),
                 ControllerSettings(ROne, RInt(4), FALSE, TRUE)},
   bugs |-> {TRUE},
   pasts |-> {<<>>},
   maxSwitches |-> MaxSwitchesLifecycle,
   maxRestoreTimers |-> MaxRestoreTimers,
   observed |-> FALSE,
   clocked |-> TRUE]

NextThrottleOver(D) ==
  \/ TimePasses
  \/ UpdateSettings(D)
  \/ Loadstart(D)
  \/ Emptied
  \/ ThrottleTimerFires(D)
  \/ Destroy
  \/ DestroyResumes

InitThrottle == InitInitialized(DThrottle)
NextThrottle == NextThrottleOver(DThrottle)
SpecThrottle ==
  /\ InitThrottle
  /\ [][NextThrottle]_vars
  /\ WF_vars(TimePasses)
  /\ WF_vars(ThrottleTimerFires(DThrottle))
  /\ WF_vars(DestroyResumes)

\* Speedups that follow one another: one silent range of 2 s that is worth
\* a speedup (seeks take 3 s), met before it begins and while it is played,
\* and room for one rate-restoration timer more than elsewhere.
DRestore ==
  [startTime |-> RZero,
   positions |-> {RZero, ROne, Rat(3, 2)},
   ranges |-> {Range(ROne, RInt(3), FALSE)},
   settings |-> {ControllerSettings(ROne, RInt(4), TRUE, FALSE)},
   bugs |-> {TRUE},
   pasts |-> {<<3000>>},
   maxSwitches |-> MaxSwitches,
   maxRestoreTimers |-> MaxRestoreTimers + 1,
   observed |-> TRUE,
   clocked |-> FALSE]

InitRestore == InitInitialized(DRestore)
NextRestore == NextEngineOver(DRestore)
SpecRestore == InitRestore /\ [][NextRestore]_vars

\* The estimators over changes of the source: an initialized controller, the
\* clock, the element's seek events and 'loadstart'.
MaxFormerProphets == 1
MaxSourceEvents == 4

DSource ==
  [startTime |-> RZero, positions |-> {RZero}, ranges |-> {},
   settings |-> {ControllerSettings(ROne, RInt(4), TRUE, FALSE)},
   bugs |-> {TRUE}, pasts |-> {<<>>, <<1>>},
   maxSwitches |-> MaxSwitches, maxRestoreTimers |-> MaxRestoreTimers,
   observed |-> FALSE,
   clocked |-> FALSE]

SourceSeeking == Len(eventLog) < MaxSourceEvents /\ ElementSeeking
SourceSeeked == Len(eventLog) < MaxSourceEvents /\ ElementSeeked
SourceLoadstart(D) ==
  Cardinality(destruction.formerProphets) < MaxFormerProphets /\ Loadstart(D)

InitSource == InitInitialized(DSource)
NextSource ==
  \/ Tick
  \/ SourceSeeking
  \/ SourceSeeked
  \/ SourceLoadstart(DSource)
  \/ ThrottleTimerFires(DSource)
SpecSource == InitSource /\ [][NextSource]_vars

---------------------------------------------------------------------------
(* The claims about the estimator (SpecProphet).                           *)

RECURSIVE DurationsFrom(_, _)
\* The seek durations a log of events shows: each 'seeked' ends a seek begun
\* at the latest 'seeking' before it (at `start` when there is none).
DurationsFrom(log, start) ==
  IF log = <<>> THEN <<>>
  ELSE IF Head(log).type = "seeking"
  THEN DurationsFrom(Tail(log), Head(log).timeStamp)
  ELSE <<Head(log).timeStamp - start>> \o DurationsFrom(Tail(log), start)

ObservedDurations == DurationsFrom(eventLog, 0)

\* C8: after any sequence of 'seeking'/'seeked' events nextSeekDurationMs is
\* the arithmetic mean of the last min(n, 5) observed seek durations, the
\* history holds exactly those (never more than 5), and the estimate is 150
\* while no 'seeked' has been observed.
C8_EstimateIsMeanOfLastFive ==
  LET recent == LastN(ObservedDurations, 5)
  IN  /\ Len(seekDurationProphet.history) <= 5
      /\ seekDurationProphet.history = recent
      /\ nextSeekDurationMs(seekDurationProphet) =
           IF ObservedDurations = <<>> THEN RInt(150)
           ELSE Rat(SeqSum(recent), Len(recent))

\* C8's case: more than 5 seeks were observed and the evicted duration matters.
C8_Witness ==
  /\ Len(ObservedDurations) > 5
  /\ SeqSum(LastN(ObservedDurations, 5)) # SeqSum(SubSeq(ObservedDurations, 1, 5))
  /\ nextSeekDurationMs(seekDurationProphet) # RInt(150)

SeekingStamps(log) == {log[i].timeStamp : i \in {j \in DOMAIN log : log[j].type = "seeking"}}
Latest(stamps) == CHOOSE t \in stamps : \A u \in stamps : u <= t

\* C9: the sample recorded at a 'seeked' is measured from the most recent
\* 'seeking' time stamp, however many 'seeking' events came before it.
C9_SampleFromLatestSeeking ==
  (/\ eventLog # <<>>
   /\ Last(eventLog).type = "seeked"
   /\ SeekingStamps(eventLog) # {})
  => Last(seekDurationProphet.history) =
       Last(eventLog).timeStamp - Latest(SeekingStamps(eventLog))

\* C9's case: two 'seeking' events at different times, then a 'seeked' later still.
C9_Witness ==
  /\ Len(eventLog) >= 3
  /\ LET n == Len(eventLog)
     IN  /\ eventLog[n].type = "seeked"
         /\ eventLog[n - 1].type = "seeking"
         /\ eventLog[n - 2].type = "seeking"
         /\ eventLog[n - 2].timeStamp < eventLog[n - 1].timeStamp
         /\ eventLog[n - 1].timeStamp < eventLog[n].timeStamp
         /\ Last(seekDurationProphet.history) =
              eventLog[n].timeStamp - eventLog[n - 1].timeStamp

---------------------------------------------------------------------------
(* The claims about the decision engine and the scheduler (SpecEngine).    *)
(* They are stated over the last evaluation, which trace records: Pre is   *)
(* the state the engine found, and the quantities below are computed from  *)
(* it and from the engine's arguments.                                     *)

Pre == trace.pre
EvalSeekAmount == RSub(trace.seekTo, Pre.element.currentTime)
EvalExpectedSeekSeconds == RDiv(Pre.historyAverage, RInt(1000))
EvalWorkaround == Pre.browserHasAudioDesyncBug /\ Pre.settings.enableDesyncCorrection
EvalTimeAtSoundedSpeed == RDiv(EvalSeekAmount, Pre.settings.soundedSpeed)
EvalTimeAtSilenceSpeed == RDiv(EvalSeekAmount, Pre.settings.silenceSpeed)
EvalSavingBySeeking == RSub(EvalTimeAtSoundedSpeed, EvalExpectedSeekSeconds)
EvalSavingBySpeedingUp ==
  RSub(RSub(EvalTimeAtSoundedSpeed, EvalTimeAtSilenceSpeed),
       IF EvalWorkaround THEN RDiv(EvalExpectedSeekSeconds, RInt(20)) ELSE RZero)
EvalStale ==
  \/ Pre.element.paused
  \/ RGt(RAbs(RSub(Pre.element.currentTime, trace.seekScheduledTo)), Rat(1, 2))
EvalRuleFour ==
  /\ trace.evaluated
  /\ ~EvalStale
  /\ RGe(EvalSavingBySpeedingUp, EvalSavingBySeeking)
  /\ RGt(EvalSavingBySpeedingUp, RZero)
  /\ RGt(EvalTimeAtSilenceSpeed, Rat(1, 240))
EvalSpedUp ==
  /\ trace.verdict = "SPEEDUP"
  /\ \E t \in RestoreTimers(timers) \ RestoreTimers(Pre.timers) :
       t.delay = RMul(EvalTimeAtSilenceSpeed, RInt(1000))
EvalChangedNothing ==
  /\ element = Pre.element
  /\ didNotDoDesyncCorrectionForNSpeedSwitches = Pre.didNotDoDesyncCorrectionForNSpeedSwitches
  /\ lastSilenceSkippingSeek = Pre.lastSilenceSkippingSeek
  /\ timers = Pre.timers

\* C2: an evaluation that finds the element paused, or its position more than
\* 0.5 s away from seekAt, is a no-op: position, playback rate, desync budget
\* and last-seek record stay as they were and no timer is armed.
C2_StaleEvaluationIsNoOp ==
  (trace.evaluated /\ EvalStale) => (trace.verdict = "stale" /\ EvalChangedNothing)

\* C2's case: the element is paused, within 0.5 s of seekAt, and the engine
\* would have seeked or sped up had the evaluation gone on.
C2_Witness ==
  /\ trace.evaluated
  /\ EvalStale
  /\ Pre.element.paused
  /\ RLe(RAbs(RSub(Pre.element.currentTime, trace.seekScheduledTo)), Rat(1, 2))
  /\ whatToDo(Pre, trace.seekTo) \in {"SEEK", "SPEEDUP"}

\* C3 as the specification states it: a non-stale evaluation with
\* canSaveBySpeedingUp >= canSaveBySeeking, canSaveBySpeedingUp > 0 and
\* seekAmount / silenceSpeed > 1/240 s takes SPEEDUP and arms a restoration
\* timer of seekAmount / silenceSpeed seconds.
C3_RuleFourSpeedsUp == EvalRuleFour => EvalSpedUp

\* C3 amended: the same holds whenever the forced-seek test is false (it is
\* always false with the desync workaround disabled); when the test is true
\* the engine seeks instead.
C3_RuleFourSpeedsUpUnlessForced ==
  EvalRuleFour =>
    IF needForceSeekForDesyncCorrection(Pre, trace.seekTo)
    THEN trace.verdict = "SEEK"
    ELSE EvalSpedUp

\* C3's case: rule 4 applies with the workaround enabled and the test false.
C3_Witness ==
  /\ EvalRuleFour
  /\ EvalWorkaround
  /\ EvalSpedUp

\* C4: with the desync workaround disabled, a non-stale evaluation with
\* canSaveBySeeking <= 0 and canSaveBySpeedingUp <= 0 takes NOTHING: position
\* and playback rate are unchanged and the engine arms no timer.
C4_NoSavingNoAction ==
  (/\ trace.evaluated
   /\ ~EvalStale
   /\ ~EvalWorkaround
   /\ RLe(EvalSavingBySeeking, RZero)
   /\ RLe(EvalSavingBySpeedingUp, RZero))
  => (trace.verdict = "NOTHING" /\ EvalChangedNothing)

\* C4's case: there is something to skip, and neither way of skipping saves time.
C4_Witness ==
  /\ trace.evaluated
  /\ ~EvalStale
  /\ ~EvalWorkaround
  /\ RGt(EvalSeekAmount, RZero)
  /\ RLe(EvalSavingBySeeking, RZero)
  /\ RLe(EvalSavingBySpeedingUp, RZero)
  /\ trace.verdict = "NOTHING"

\* C5: an evaluation that executes SEEK leaves desyncBudget = 0; one that
\* executes SPEEDUP leaves it exactly one above its value before.
C5_BudgetResetAndIncrement ==
  trace.evaluated =>
    /\ trace.verdict = "SEEK" => didNotDoDesyncCorrectionForNSpeedSwitches = 0
    /\ trace.verdict = "SPEEDUP" =>
         didNotDoDesyncCorrectionForNSpeedSwitches =
           Pre.didNotDoDesyncCorrectionForNSpeedSwitches + 1

\* C5's case: a SEEK executed when the budget was not 0 already.
C5_Witness ==
  /\ trace.evaluated
  /\ trace.verdict = "SEEK"
  /\ Pre.didNotDoDesyncCorrectionForNSpeedSwitches > 0
  /\ didNotDoDesyncCorrectionForNSpeedSwitches = 0

---------------------------------------------------------------------------
(* The claims about the controller's life (Spec).                          *)

\* C1: in every reachable state at most one scheduler timer is armed, and it
\* is the one armed last (the one whose id the controller holds): arming a new
\* timer cancels the one armed before.
C1_AtMostOneSchedulerTimer ==
  /\ Cardinality(SeekTimers(timers)) <= 1
  /\ \A t \in SeekTimers(timers) : t.id = maybeSeekOrSpeedupTimeoutId

\* C1's case: the scheduler has just armed a timer while another was armed.
C1_Witness ==
  /\ trace.scheduled = "armed"
  /\ trace.cancelled
  /\ Cardinality(SeekTimers(timers)) = 1

\* C7: once destroy() has completed, no scheduler timer armed before it
\* invokes the engine to seek or to change the playback rate.
C7_NoSeekOrSpeedupAfterDestroy ==
  destroyPhase = "done" =>
    ~(trace.op = "ScheduledTimerFires" /\ trace.verdict \in {"SEEK", "SPEEDUP"})

---------------------------------------------------------------------------
(* The claim about the desync budget (SpecDesync).                         *)

WorkaroundOn == browserHasAudioDesyncBug /\ settings.enableDesyncCorrection

---------------------------------------------------------------------------
(* More claims about the scheduler (SpecEngine).  The scheduler changes    *)
(* neither the element's rate nor the settings before it arms its timer,   *)
(* so they are read from the state it leaves.                              *)

SchedVideoTimeToSeekAt == RSub(trace.seekScheduledTo, trace.timeAtScheduling)
SchedArmedTimers == {t \in SeekTimers(timers) : t.id = maybeSeekOrSpeedupTimeoutId}

\* C11 as the specification states it: the scheduler's timer is armed with the
\* delay (seekAt - currentPosition) / the element's current playback rate.
C11_DelayByElementRate ==
  trace.scheduled = "armed" =>
    \E t \in SchedArmedTimers :
      t.delay = RMul(RDiv(SchedVideoTimeToSeekAt, element.playbackRate), RInt(1000))

\* C11 amended: the delay is (seekAt - currentPosition) / settings.soundedSpeed
\* seconds; when it is <= 0 the engine is invoked synchronously with
\* (seekTo, seekAt) and no scheduler timer is armed.
C11_DelayBySoundedSpeed ==
  LET delay == RDiv(SchedVideoTimeToSeekAt, settings.soundedSpeed)
  IN  /\ trace.scheduled = "armed" =>
           /\ RGt(delay, RZero)
           /\ ~trace.evaluated
           /\ \E t \in SchedArmedTimers :
                /\ t.delay = RMul(delay, RInt(1000))
                /\ t.seekTo = trace.seekTo
                /\ t.seekScheduledTo = trace.seekScheduledTo
      /\ trace.scheduled = "sync" =>
           /\ RLe(delay, RZero)
           /\ trace.evaluated
           /\ SeekTimers(timers) = {}

\* C11's case: a timer armed while the element plays at another rate than
\* the sounded speed (a speedup is under way).
C11_Witness ==
  /\ trace.scheduled = "armed"
  /\ element.playbackRate # settings.soundedSpeed
  /\ \E t \in SchedArmedTimers :
       t.delay = RMul(RDiv(SchedVideoTimeToSeekAt, settings.soundedSpeed), RInt(1000))

---------------------------------------------------------------------------
(* The scheduler's early returns (SpecSched), as properties of the steps   *)
(* that a 'timeupdate' event makes.                                        *)

ControllerLeftAsItWas ==
  UNCHANGED <<element, settings, lookahead, didNotDoDesyncCorrectionForNSpeedSwitches,
              lastSilenceSkippingSeek, maybeSeekOrSpeedupTimeoutId, timers,
              lastActualPlaybackRateChange, throttledInitLookahead>>

\* What there would be to skip of range r from position cur.
AmountToSkipOf(r, cur) ==
  LET at == IF RGe(r.start, cur) THEN r.start ELSE cur
      cut == RSub(r.end, RInt(3))
      to == IF ~r.pending THEN r.end ELSE IF RGe(at, cut) THEN at ELSE cut
  IN  RSub(to, cur)

\* C12: in opposite mode a 'timeupdate' whose next range is still pending
\* arms no scheduler timer and does not invoke the engine (nothing changes).
C12_OppositeModeSkipsPending ==
  [][(/\ trace'.op = "TimeUpdate"
      /\ settings.isOppositeDay
      /\ trace'.range.some
      /\ trace'.range.pending)
     => (ControllerLeftAsItWas /\ ~trace'.evaluated)]_vars

\* C12's case: opposite mode, a pending range with 3 s or more to skip (one
\* the scheduler acts on in normal mode), and a timer armed for a final range.
C12_Witness ==
  /\ trace.op = "TimeUpdate"
  /\ settings.isOppositeDay
  /\ trace.range.some
  /\ trace.range.pending
  /\ RGe(AmountToSkipOf(trace.range, element.currentTime), RInt(3))
  /\ ~trace.evaluated
  /\ SeekTimers(timers) # {}

\* C13: for a pending range with seekTo - currentPosition < 3 the scheduler
\* neither invokes the engine nor arms a timer, and it leaves a timer armed
\* before as it was.
C13_TooShortPendingRangeIsLeft ==
  [][(/\ trace'.op = "TimeUpdate"
      /\ trace'.range.some
      /\ trace'.range.pending
      /\ RLt(AmountToSkipOf(trace'.range, element.currentTime), RInt(3)))
     => (ControllerLeftAsItWas /\ ~trace'.evaluated)]_vars

\* C13's case: normal mode, a pending range with less than 3 s to skip, and a
\* timer armed before that is still armed.
C13_Witness ==
  /\ trace.op = "TimeUpdate"
  /\ ~settings.isOppositeDay
  /\ trace.range.some
  /\ trace.range.pending
  /\ RLt(AmountToSkipOf(trace.range, element.currentTime), RInt(3))
  /\ ~trace.evaluated
  /\ SeekTimers(timers) # {}

\* C14: when there is no range, or no detector, a 'timeupdate' changes
\* nothing: the element is not touched, the engine is not invoked, no timer
\* is armed and a scheduler timer armed before is not cancelled.
C14_NoRangeChangesNothing ==
  [][(/\ trace'.op = "TimeUpdate"
      /\ (lookahead = "none" \/ ~trace'.range.some))
     => (ControllerLeftAsItWas /\ ~trace'.evaluated)]_vars

\* C14's case: a 'timeupdate' while the detector is absent and a scheduler
\* timer armed before is still armed.
C14_Witness ==
  /\ trace.op = "TimeUpdate"
  /\ lookahead = "none"
  /\ ~trace.range.some
  /\ ~trace.evaluated
  /\ SeekTimers(timers) # {}

---------------------------------------------------------------------------
(* More claims about the controller's life (Spec).                         *)

\* C15: across every step desyncBudget is left as it was, except that a step
\* in which the engine executes SPEEDUP adds exactly 1 to it and a step in
\* which the engine executes SEEK sets it to 0.
C15_BudgetChangesOnlyByEngine ==
  [][IF trace'.evaluated /\ trace'.verdict = "SPEEDUP"
     THEN didNotDoDesyncCorrectionForNSpeedSwitches' =
            didNotDoDesyncCorrectionForNSpeedSwitches + 1
     ELSE IF trace'.evaluated /\ trace'.verdict = "SEEK"
     THEN didNotDoDesyncCorrectionForNSpeedSwitches' = 0
     ELSE didNotDoDesyncCorrectionForNSpeedSwitches' =
            didNotDoDesyncCorrectionForNSpeedSwitches]_vars

\* C15's case: the rate-restoration timer has switched the speed back and the
\* budget is still above 0.
C15_Witness ==
  /\ trace.op = "RestoreTimerFires"
  /\ didNotDoDesyncCorrectionForNSpeedSwitches > 0

---------------------------------------------------------------------------
(* Claims about what the engine's actions do (SpecEngine).                 *)

\* C16: an evaluation that executes SEEK leaves the element at seekTo, with
\* the playback rate it had and no timer armed by it, and the telemetry's last
\* seek is (seekScheduledTo, seekTo); the telemetry's last seek is absent at
\* first and changes in no other step.
C16_SeekMovesAndIsRecorded ==
  /\ telemetry.lastSilenceSkippingSeek = <<>>
  /\ [](trace.evaluated /\ trace.verdict = "SEEK"
        => /\ element.currentTime = trace.seekTo
           /\ telemetry.intrinsicTime = trace.seekTo
           /\ element.playbackRate = Pre.element.playbackRate
           /\ element.paused = Pre.element.paused
           /\ timers = Pre.timers
           /\ telemetry.lastSilenceSkippingSeek = <<trace.seekScheduledTo, trace.seekTo>>)
  /\ [][IF trace'.evaluated /\ trace'.verdict = "SEEK"
        THEN telemetry'.lastSilenceSkippingSeek = <<trace'.seekScheduledTo, trace'.seekTo>>
        ELSE telemetry'.lastSilenceSkippingSeek = telemetry.lastSilenceSkippingSeek]_vars

\* C16's case: a SEEK whose record replaces that of an earlier, different SEEK.
C16_Witness ==
  /\ trace.evaluated
  /\ trace.verdict = "SEEK"
  /\ Pre.lastSilenceSkippingSeek # <<>>
  /\ Pre.lastSilenceSkippingSeek # <<trace.seekScheduledTo, trace.seekTo>>
  /\ telemetry.lastSilenceSkippingSeek = <<trace.seekScheduledTo, trace.seekTo>>
  /\ trace.seekScheduledTo # trace.seekTo

---------------------------------------------------------------------------
(* The rate after a SPEEDUP (SpecFair).                                    *)

\* C17: a state an evaluation that executed SPEEDUP has produced has the
\* element playing at the silence-speed value, and every such state is
\* followed by a later state in which the element plays at the sounded-speed
\* value.
C17_SpeedupIsSwitchedBack ==
  /\ [](trace.evaluated /\ trace.verdict = "SPEEDUP"
        => element.playbackRate = settings.silenceSpeed)
  /\ ((trace.evaluated /\ trace.verdict = "SPEEDUP")
        ~> (/\ ~(trace.evaluated /\ trace.verdict = "SPEEDUP")
            /\ element.playbackRate = settings.soundedSpeed))

\* C17's case: the rate-restoration timer of a SPEEDUP has fired and the
\* element, which was playing at the silence speed, plays at the sounded speed.
C17_Witness ==
  /\ trace.op = "RestoreTimerFires"
  /\ element.playbackRate = settings.soundedSpeed
  /\ element.playbackRate # settings.silenceSpeed
  /\ lastActualPlaybackRateChange.name = "SOUNDED"
  /\ didNotDoDesyncCorrectionForNSpeedSwitches > 0

---------------------------------------------------------------------------
(* Settings submitted before init() has finished (Spec).                   *)

\* C18: a settings update submitted before init() has finished is put in the
\* pending slot and leaves the element, the settings, the timers and the
\* scheduler as they were; only such an update and the completion of init()
\* change the slot; the step that completes init() leaves the settings equal
\* to the update found in the slot (the one submitted last), recomputes the
\* state from them exactly once and empties the slot, which stays empty.
C18_QueuedSettingsAppliedAtInit ==
  /\ [][(trace'.op = "UpdateSettings" /\ ~initialized)
          => /\ trace'.submitted # NoSettings
             /\ pendingSettingsUpdates' = trace'.submitted
             /\ ControllerLeftAsItWas
             /\ ~initialized'
             /\ trace'.recomputed = 0
             /\ trace'.scheduled = "no"
             /\ ~trace'.evaluated]_vars
  /\ [][pendingSettingsUpdates' # pendingSettingsUpdates
          => trace'.op \in {"UpdateSettings", "InitComplete"}]_vars
  /\ [][(initialized' /\ ~initialized)
          => /\ trace'.op = "InitComplete"
             /\ trace'.queued = pendingSettingsUpdates
             /\ settings' = IF pendingSettingsUpdates = NoSettings THEN settings
                            ELSE pendingSettingsUpdates[1]
             /\ trace'.recomputed = 1
             /\ trace'.scheduled # "no"
             /\ pendingSettingsUpdates' = NoSettings]_vars
  /\ [](initialized => pendingSettingsUpdates = NoSettings)

\* C18's case: init() has completed and has found an update in the slot,
\* whose sounded speed differs from the rate the element had by default.
C18_Witness ==
  /\ trace.op = "InitComplete"
  /\ initialized
  /\ trace.queued # NoSettings
  /\ settings = trace.queued[1]
  /\ settings.soundedSpeed # rateBeforeInit[2]
  /\ trace.recomputed = 1
  /\ pendingSettingsUpdates = NoSettings

---------------------------------------------------------------------------
(* The detector's rebuilds (SpecThrottle).                                 *)

---------------------------------------------------------------------------
(* destroy() called again (Spec).                                          *)

\* Every estimator the controller has made: the one it holds and those that
\* 'loadstart' has replaced.
Estimators == {ProphetLog(seekDurationProphet)} \cup destruction.formerProphets

\* C20: no call of destroy() throws, on the controller or on an estimator,
\* however often it is called; the callbacks that remove the controller's
\* listeners and restore the element's rates have run once when destroy()
\* has completed and never more than once, and a completed destroy() that
\* follows another leaves the element and the estimator as they were; the
\* callback that removes an estimator's listeners has run once when its
\* destroy() has been called and never more than once.
C20_DestroyTwiceTearsDownOnce ==
  /\ [](~destruction.threw)
  /\ [](destruction.callbacksRun = IF destroyPhase = "done" THEN 1 ELSE 0)
  /\ [](\A p \in Estimators :
          /\ p.teardowns = IF p.destroyCalls >= 1 THEN 1 ELSE 0
          /\ p.listening <=> p.teardowns = 0)
  /\ [][(trace'.op = "DestroyResumes" /\ destroyPhase = "done")
          => UNCHANGED <<element, seekDurationProphet, destroyPhase, timers>>]_vars

\* C20's case: destroy() has been called twice on the controller and both
\* calls have completed, and it has been called twice on an estimator that
\* 'loadstart' had replaced.
C20_Witness ==
  /\ trace.op = "DestroyResumes"
  /\ destroyPhase = "done"
  /\ destruction.called >= 2
  /\ destruction.awaiting = 0
  /\ destruction.callbacksRun = 1
  /\ ~seekDurationProphet.listening
  /\ \E p \in destruction.formerProphets : p.destroyCalls >= 2 /\ p.teardowns = 1

---------------------------------------------------------------------------
(* The estimator over a change of the source (SpecSource).                 *)

FreshEstimate == RInt(seekDurationProphetNoDataInitialAssumedDuration)
Learnt(p) == <<p.history, p.historyAverage, p.lastSeekStartTime>>

\* C21: the step that handles 'loadstart' leaves the controller with an
\* estimator whose history is empty and whose estimate is 150 ms, whatever the
\* replaced one had learnt, and the replaced one among the former estimators
\* with what it had learnt; no former estimator listens to the element, and
\* no step changes what a former estimator has learnt.
C21_FreshEstimatorPerSource ==
  /\ [][trace'.op = "Loadstart"
          => /\ seekDurationProphet'.history = <<>>
             /\ nextSeekDurationMs(seekDurationProphet') = FreshEstimate
             /\ seekDurationProphet'.listening
             /\ \E q \in destruction'.formerProphets :
                  Learnt(q) = Learnt(seekDurationProphet)]_vars
  /\ [](\A p \in destruction.formerProphets : ~p.listening)
  /\ [][\A p \in destruction.formerProphets :
          \E q \in destruction'.formerProphets : Learnt(q) = Learnt(p)]_vars
  /\ [][{Learnt(q) : q \in destruction'.formerProphets}
          \subseteq {Learnt(p) : p \in destruction.formerProphets}
                    \cup {Learnt(seekDurationProphet)}]_vars

\* C21's case: an estimator that had learnt a duration other than 150 ms was
\* replaced at 'loadstart', and a seek has ended since: the new estimator has
\* learnt it, the replaced one has not.
C21_Witness ==
  /\ trace.op = "ElementSeeked"
  /\ Len(seekDurationProphet.history) = 1
  /\ \E p \in destruction.formerProphets :
       /\ p.history # <<>>
       /\ p.historyAverage # FreshEstimate
       /\ p.history # seekDurationProphet.history
       /\ ~p.listening

---------------------------------------------------------------------------
(* The detector's failure (SpecSched).                                     *)

\* C22: clonePlaybackError is false until a detector reports a failure; the
\* report sets it and changes nothing else of the controller; once it is
\* true it is true after every step, a rebuild of the detector included; the
\* telemetry shows it as true, and as absent while it is false; and the
\* 'timeupdate' handler goes on being run.
C22_DetectionFailureFlagPersists ==
  /\ ~clonePlaybackError
  /\ [][clonePlaybackError' # clonePlaybackError
          => trace'.op = "ClonePlaybackError" /\ clonePlaybackError']_vars
  /\ [][trace'.op = "ClonePlaybackError"
          => clonePlaybackError' /\ ControllerLeftAsItWas]_vars
  /\ [](telemetry.clonePlaybackError = IF clonePlaybackError THEN <<TRUE>> ELSE <<>>)
  /\ [](clonePlaybackError => ENABLED TimeUpdate(DSched))

\* C22's case: the detector has been made anew after a failure was reported,
\* and the flag is still set.
C22_Witness ==
  /\ trace.created
  /\ lookahead = "live"
  /\ clonePlaybackError
  /\ telemetry.clonePlaybackError = <<TRUE>>

---------------------------------------------------------------------------
(* Speedups that follow one another (SpecRestore).                         *)

\* C23: in every state at most one rate-restoration timer is armed.
C23_AtMostOneRestoreTimer == Cardinality(RestoreTimers(timers)) <= 1

\* C24: while the rate-restoration timer of a SPEEDUP is armed, a
\* 'timeupdate' that finds the element inside the range it is given again
\* does not execute a SPEEDUP: it arms no second rate-restoration timer and
\* does not add to desyncBudget.  (SpecRestore has one range, so the timer
\* that is armed was armed for that range.)
C24_RangeSpedUpOnce ==
  [][(/\ trace'.op = "TimeUpdate"
      /\ RestoreTimers(timers) # {}
      /\ trace'.range.some
      /\ RLe(trace'.range.start, element.currentTime)
      /\ RLe(element.currentTime, trace'.range.end))
     => /\ ~(trace'.evaluated /\ trace'.verdict = "SPEEDUP")
        /\ RestoreTimers(timers') \subseteq RestoreTimers(timers)
        /\ didNotDoDesyncCorrectionForNSpeedSwitches'
             <= didNotDoDesyncCorrectionForNSpeedSwitches]_vars

---------------------------------------------------------------------------
(* The decision rules, case by case.                                       *)

\* What a SEEK does to the controller, and what its absence leaves alone.
EvalSeeked ==
  /\ element.currentTime = trace.seekTo
  /\ lastSilenceSkippingSeek = <<trace.seekScheduledTo, trace.seekTo>>
  /\ didNotDoDesyncCorrectionForNSpeedSwitches = 0
EvalDidNotSeek ==
  /\ element.currentTime = Pre.element.currentTime
  /\ lastSilenceSkippingSeek = Pre.lastSilenceSkippingSeek
  /\ didNotDoDesyncCorrectionForNSpeedSwitches >= Pre.didNotDoDesyncCorrectionForNSpeedSwitches

\* C25: an evaluation made with the desync workaround disabled executes a
\* SEEK only if canSaveBySeeking > 0, whatever desyncBudget is: when
\* canSaveBySeeking <= 0 the verdict is not SEEK, and the position, the
\* last-seek record and the budget are not those of a seek.
C25_NoForcedSeekWhenWorkaroundDisabled ==
  (trace.evaluated /\ ~EvalWorkaround)
    => /\ trace.verdict = "SEEK" => (RGt(EvalSavingBySeeking, RZero) /\ EvalSeeked)
       /\ RLe(EvalSavingBySeeking, RZero) => (trace.verdict # "SEEK" /\ EvalDidNotSeek)

\* C25's case: the workaround is disabled, canSaveBySeeking <= 0, and the
\* budget is so large that the forced-seek test would have held had the
\* workaround been enabled.
C25_Witness ==
  /\ trace.evaluated
  /\ ~EvalStale
  /\ ~EvalWorkaround
  /\ RLe(EvalSavingBySeeking, RZero)
  /\ wantsDesyncCorrectionEnough(Pre, trace.seekTo)
  /\ Pre.didNotDoDesyncCorrectionForNSpeedSwitches >= DO_DESYNC_CORRECTION_EVERY_N_SPEED_SWITCHES
  /\ trace.verdict = "SPEEDUP"

\* The verdict when no speedup is to be made: SEEK if it saves time, else
\* NOTHING, or SEEK if the forced-seek test holds.
EvalSeekOrNothing ==
  IF RGt(EvalSavingBySeeking, RZero) THEN "SEEK"
  ELSE IF needForceSeekForDesyncCorrection(Pre, trace.seekTo) THEN "SEEK"
  ELSE "NOTHING"
EvalRuleOne ==
  /\ trace.evaluated
  /\ ~EvalStale
  /\ RGt(EvalSavingBySeeking, EvalSavingBySpeedingUp)

\* C26: a non-stale evaluation with canSaveBySeeking > canSaveBySpeedingUp
\* has the verdict SEEK if canSaveBySeeking > 0, and otherwise NOTHING, or
\* SEEK if the forced-seek test holds; it is never SPEEDUP.  The engine
\* executes the verdict: a SEEK moves the element, a NOTHING changes nothing.
C26_RuleOne ==
  EvalRuleOne =>
    /\ trace.verdict = EvalSeekOrNothing
    /\ trace.verdict = "SEEK" => EvalSeeked
    /\ trace.verdict = "NOTHING" => EvalChangedNothing

\* C26's case: a seek would lose less time than a speedup and still saves
\* none, and the forced-seek test is made and fails.
C26_Witness ==
  /\ EvalRuleOne
  /\ RLe(EvalSavingBySeeking, RZero)
  /\ EvalWorkaround
  /\ trace.verdict = "NOTHING"

EvalTooShortForSpeedup ==
  /\ trace.evaluated
  /\ ~EvalStale
  /\ RLe(EvalTimeAtSilenceSpeed, Rat(1, 240))

\* C27: a non-stale evaluation with seekAmount / silenceSpeed <= 1/240 s
\* (seekAmount may be 0 or negative) never executes SPEEDUP: the verdict is
\* SEEK if canSaveBySeeking > 0, else NOTHING or a forced SEEK; no
\* rate-restoration timer is armed and desyncBudget does not grow.
C27_NoSpeedupBelowTimerFloor ==
  EvalTooShortForSpeedup =>
    /\ trace.verdict = EvalSeekOrNothing
    /\ RestoreTimers(timers) = RestoreTimers(Pre.timers)
    /\ didNotDoDesyncCorrectionForNSpeedSwitches
         <= Pre.didNotDoDesyncCorrectionForNSpeedSwitches

\* C27's case: a speedup would save time, and at least as much as a seek,
\* and only the shortness of the range keeps the engine from it.
C27_Witness ==
  /\ EvalTooShortForSpeedup
  /\ RGt(EvalSeekAmount, RZero)
  /\ RGe(EvalSavingBySpeedingUp, EvalSavingBySeeking)
  /\ RGt(EvalSavingBySpeedingUp, RZero)
  /\ RGt(EvalSavingBySeeking, RZero)
  /\ trace.verdict = "SEEK"

---------------------------------------------------------------------------
(* An evaluation that finds the element beyond seekTo (SpecLate).          *)

\* C28: a non-stale evaluation that finds seekTo < currentTime has the
\* verdict NOTHING, whatever desyncBudget is, and changes nothing: the
\* element is not moved back.  Stated for the evaluations that the
\* scheduler's timer starts, where seekTo was ahead when the timer was armed.
C28_NegativeDistanceIsNothing ==
  (/\ trace.op = "ScheduledTimerFires"
   /\ trace.evaluated
   /\ ~EvalStale
   /\ RLt(EvalSeekAmount, RZero))
  => (trace.verdict = "NOTHING" /\ EvalChangedNothing)

---------------------------------------------------------------------------
(* The forced-seek test as a function of the budget (SpecForce).           *)

WithBudget(s, b) == [s EXCEPT !.didNotDoDesyncCorrectionForNSpeedSwitches = b]

\* C29: if the forced-seek test holds for a state with desyncBudget = b,
\* it holds for the same seekAmount, soundedSpeed and expected seek duration
\* with every larger desyncBudget.
C29_ForcedSeekMonotoneInBudget ==
  (trace.op = "needForceSeekForDesyncCorrection" /\ trace.verdict = "SEEK")
    => \A b \in (Pre.didNotDoDesyncCorrectionForNSpeedSwitches + 1) .. (MaxBudget + 1) :
         needForceSeekForDesyncCorrection(WithBudget(Pre, b), trace.seekTo)

\* C29's case: the test holds at a budget, does not hold at the budget one
\* below, and there is a budget above a period of 20 to hold it at.
C29_Witness ==
  /\ trace.op = "needForceSeekForDesyncCorrection"
  /\ trace.verdict = "SEEK"
  /\ Pre.didNotDoDesyncCorrectionForNSpeedSwitches > 0
  /\ Pre.didNotDoDesyncCorrectionForNSpeedSwitches < DO_DESYNC_CORRECTION_EVERY_N_SPEED_SWITCHES
  /\ ~needForceSeekForDesyncCorrection(
        WithBudget(Pre, Pre.didNotDoDesyncCorrectionForNSpeedSwitches - 1), trace.seekTo)
  /\ MaxBudget >= DO_DESYNC_CORRECTION_EVERY_N_SPEED_SWITCHES

---------------------------------------------------------------------------
(* A new soundedSpeed and the scheduler's timer (SpecRetime).              *)

\* The delay of a scheduler timer armed at position p under the current settings.
DelayUnderCurrentSpeed(t, p) ==
  RMul(RDiv(RSub(t.seekScheduledTo, p), settings.soundedSpeed), RInt(1000))

\* C30: a settings update of an initialized controller that changes
\* soundedSpeed leaves none of the scheduler's timers that were armed before
\* it, and calls the scheduler for the element's current position: at most
\* one scheduler timer is armed after it, the one the call armed, with a
\* delay computed from the current position and the new soundedSpeed.  At
\* all times every armed scheduler timer has a delay computed with the
\* current soundedSpeed, so none armed under an old one can fire.
C30_NewSoundedSpeedRearms ==
  /\ [][(trace'.op = "UpdateSettings" /\ settings'.soundedSpeed # settings.soundedSpeed)
         => /\ SeekTimers(timers') \cap SeekTimers(timers) = {}
            /\ trace'.cleared = (SeekTimers(timers) # {})
            /\ trace'.scheduled # "no"
            /\ trace'.timeAtScheduling = element.currentTime
            /\ IF trace'.scheduled = "armed"
               THEN \E t \in timers' :
                      /\ SeekTimers(timers') = {t}
                      /\ t.id = maybeSeekOrSpeedupTimeoutId'
                      /\ t.delay = RMul(RDiv(RSub(t.seekScheduledTo, element.currentTime),
                                             settings'.soundedSpeed), RInt(1000))
               ELSE SeekTimers(timers') = {}]_vars
  /\ [](\A t \in SeekTimers(timers) :
          \E p \in DRetime.positions : t.delay = DelayUnderCurrentSpeed(t, p))

\* C30's case: the update found the scheduler's timer armed under the other
\* soundedSpeed, cleared it and armed one for the same range under the new one.
C30_Witness ==
  /\ trace.op = "UpdateSettings"
  /\ trace.cleared
  /\ trace.scheduled = "armed"
  /\ settings.soundedSpeed = RInt(2)
  /\ \E t \in SeekTimers(timers) :
       /\ t.delay = DelayUnderCurrentSpeed(t, element.currentTime)
       /\ t.delay # RMul(RSub(t.seekScheduledTo, element.currentTime), RInt(1000))

---------------------------------------------------------------------------
(* destroy() and an init() that has not finished (SpecInitFair).           *)

\* C31: a call of destroy() goes on only once init() has finished: the
\* callbacks of _destroyedPromise run, and the detector and the listeners
\* are torn down, in a state where init() has finished, and until then no
\* call of destroy() has completed (none ever does if init() is not
\* called).  Once destroy() and init() have both been called, destroy()
\* completes eventually.
C31_DestroyWaitsForInit ==
  /\ [][destruction'.awaiting < destruction.awaiting
         => (initPhase = "done" /\ initialized /\ trace'.op = "DestroyResumes")]_vars
  /\ [][(destroyPhase' = "done" /\ destroyPhase # "done")
         => (initPhase = "done" /\ initialized /\ trace'.op = "DestroyResumes")]_vars
  /\ [](initPhase # "done"
         => /\ destroyPhase # "done"
            /\ destruction.awaiting = destruction.called
            /\ destruction.callbacksRun = 0
            /\ seekDurationProphet.listening
            /\ lookahead # "destroyed"
            /\ SourceListenersOn = (initPhase # "constructed")
            /\ TimeupdateListenerOn = (initPhase = "listening"))
  /\ ((destruction.called > 0 /\ initPhase # "constructed")
        ~> (destroyPhase = "done" /\ destruction.awaiting < destruction.called))

\* C31's case: destroy() was called while init() was in progress; init()
\* has just finished and nothing has been torn down yet.
C31_Witness ==
  /\ trace.op = "InitComplete"
  /\ initPhase = "done"
  /\ destruction.awaiting > 0
  /\ destroyPhase = "called"
  /\ destruction.callbacksRun = 0
  /\ seekDurationProphet.listening
  /\ TimeupdateListenerOn

---------------------------------------------------------------------------
(* The element after destroy() has completed (SpecInit).                   *)

\* C32: the step that completes destroy() leaves the element's playbackRate
\* and defaultPlaybackRate at the values they had before init(), and a
\* rate-restoration timer that fires after destroy() has completed does not
\* change the element's playbackRate.
C32_DetachedElementKeepsItsRates ==
  /\ [][(destroyPhase' = "done" /\ destroyPhase # "done")
         => (/\ element'.playbackRate = rateBeforeInit[1]
             /\ element'.defaultPlaybackRate = rateBeforeInit[2])]_vars
  /\ [][(destroyPhase = "done" /\ trace'.op = "RestoreTimerFires")
         => element'.playbackRate = element.playbackRate]_vars

=============================================================================
